---- MODULE Spec2Model ----
(***************************************************************************)
(* Mosaic composition engine of the gift repository: tile matcher,        *)
(* quadtree partitioner, mask opacity shading and the generation pass     *)
(* of the App component (quadtree build: src/src/App.jsx, hexagon build:  *)
(* src/unnamed/part_001 from line 3590 on).                               *)
(*                                                                         *)
(* Numbers that are floating point in the source are modelled in fixed    *)
(* point: colour distances and scores in 1/1000, opacities in 1/1000.     *)
(***************************************************************************)
EXTENDS Integers, Sequences, FiniteSets, TLC

\* ------------------------------------------------------------------------
\* Bounds of the model
\* ------------------------------------------------------------------------
PoolSize == 3
MaxRegions == 3
MaxEvents == 2
MaxCount == 2
MaxSize == 2
MaxExtra == 1
MaxMaskTens == 1
MaxTileSize == 3
MaxInset == 1
MaxBeyond == 1
MaxTiles == 2
MaxTwin == 3
\* the caps of the capped buildQuadtree (maxDepth = 20, maxIterations =
\* 10000 in the source), scaled to the rasters of the model
MaxGridTiles == 14
MaxProbe == 2
MaxFillProbes == 6
MaxCalls == 3
MaxDepth == 2
MaxIterations == 12

\* ------------------------------------------------------------------------
\* Program constants
\* ------------------------------------------------------------------------
MAX_TILE_USAGE == 2
TOP_CANDIDATES == 20
DEFAULT_DIVERSITY_BONUS == 5000
EDGE_DIVERSITY_BONUS == 10000
MIN_TILES_PER_DIMENSION == 10
MAX_TILES_PER_DIMENSION == 20
VARIANCE_THRESHOLD == 800
OPACITY_TRANSITION_TILES == 1

\* fixed-point scale of distances and scores
SCALE == 10 * 10 * 10
\* stands for JavaScript's Infinity: above every finite score of the model
Infinity == 2000 * SCALE * SCALE
\* stands for a colour channel that is NaN or undefined
NaN == 0 - 1
\* stands for a null availableTileIndices argument
Null == << 0 - 1 >>

\* opacities in 1/SCALE: MIN_OPACITY = 0.1, MAX_OPACITY = 1.0
MIN_OPACITY == SCALE \div 10
MAX_OPACITY == SCALE
\* BORDER_GRADIENT_WIDTH_MULTIPLIER = 1.5, in 1/SCALE
BORDER_GRADIENT_WIDTH_MULTIPLIER == (3 * SCALE) \div 2

Min(a, b) == IF a <= b THEN a ELSE b
Max(a, b) == IF a >= b THEN a ELSE b

RECURSIVE ISqrtIter(_, _, _)
ISqrtIter(n, lo, hi) ==
  IF lo >= hi THEN lo
  ELSE LET mid == (lo + hi + 1) \div 2
       IN  IF mid * mid <= n THEN ISqrtIter(n, mid, hi)
                             ELSE ISqrtIter(n, lo, mid - 1)

\* floor of the square root (Math.sqrt in fixed point)
ISqrt(n) == ISqrtIter(n, 0, 46340)

\* x + y and 2 * x of JavaScript numbers, Infinity absorbing
Plus(x, y) == IF x = Infinity \/ y = Infinity THEN Infinity ELSE x + y
Twice(x) == IF x = Infinity THEN Infinity ELSE 2 * x

\* ------------------------------------------------------------------------
\* Colours
\* ------------------------------------------------------------------------
Rgb(r, g, b) == [r |-> r, g |-> g, b |-> b]
InvalidColor == Rgb(NaN, NaN, NaN)
IsNaNColor(c) == c.r = NaN \/ c.g = NaN \/ c.b = NaN

\* a distance without the validity test: an invalid colour compares as equal
colorDistanceUnguarded(c1, c2) ==
  IF IsNaNColor(c1) \/ IsNaNColor(c2) THEN 0
  ELSE ISqrt(((c1.r - c2.r) * (c1.r - c2.r)
            + (c1.g - c2.g) * (c1.g - c2.g)
            + (c1.b - c2.b) * (c1.b - c2.b)) * SCALE * SCALE)

\* Euclidean distance between colours, in 1/SCALE; Infinity for invalid colours
colorDistance(c1, c2) ==
  IF IsNaNColor(c1) \/ IsNaNColor(c2) THEN Infinity
  ELSE ISqrt(((c1.r - c2.r) * (c1.r - c2.r)
            + (c1.g - c2.g) * (c1.g - c2.g)
            + (c1.b - c2.b) * (c1.b - c2.b)) * SCALE * SCALE)

\* ------------------------------------------------------------------------
\* Tile matcher
\* ------------------------------------------------------------------------
\* the elements of a sequence
Range(s) == { s[i] : i \in DOMAIN s }

\* Math.pow(usage, 1.5) in 1/SCALE
PowUsage(usage) == ISqrt(usage * usage * usage * SCALE * SCALE)

\* penalty that charges the unused tiles instead of the used ones
penaltyInverted(usage, diversityBonus) ==
  IF usage > 0 THEN 0 ELSE diversityBonus * SCALE * 2

\* adjusted score of the quadtree build: penalty for used tiles only
penalty(usage, diversityBonus) ==
  IF usage > 0 THEN diversityBonus * (SCALE + PowUsage(usage)) ELSE 0

\* unusedPenalty six times as large
unusedPenaltyHuge(usage, diversityBonus) ==
  IF usage = 0 THEN 0 - diversityBonus * SCALE * 3 ELSE 0

\* the hexagon build: unusedPenalty = -diversityBonus * 0.5 for unused tiles,
\* and distance = originalDistance + usagePenalty - unusedPenalty
unusedPenalty(usage, diversityBonus) ==
  IF usage = 0 THEN 0 - (diversityBonus * SCALE) \div 2 ELSE 0

\* usagePenalty without the penalty for used tiles
usagePenaltyNone(usage, diversityBonus) == 0

usagePenalty(usage, diversityBonus) ==
  IF usage > 0 THEN diversityBonus * (SCALE + PowUsage(usage)) ELSE 0

\* the candidate records pushed by the first loop of findBestMatch (quadtree build)
candidates(targetColor, photoColors, usageCount, excludedIndices, diversityBonus, availableTileIndices) ==
  { [index |-> index,
     distance |-> Plus(colorDistance(targetColor, photoColors[index]),
                       penalty(usageCount[index], diversityBonus)),
     usage |-> usageCount[index],
     originalDistance |-> colorDistance(targetColor, photoColors[index])] :
    index \in { i \in DOMAIN photoColors :
                  /\ i \notin excludedIndices
                  /\ (availableTileIndices # Null => i \in Range(availableTileIndices)) } }

\* candidatesCapped without the usage-cap test
candidatesCappedNoCap(targetColor, photoColors, usageCount, excludedIndices, diversityBonus, availableTileIndices, maxUsage) ==
  { [index |-> index,
     distance |-> Plus(colorDistance(targetColor, photoColors[index]),
                       usagePenalty(usageCount[index], diversityBonus)
                         - unusedPenalty(usageCount[index], diversityBonus)),
     usage |-> usageCount[index],
     originalDistance |-> colorDistance(targetColor, photoColors[index])] :
    index \in { i \in DOMAIN photoColors :
                  /\ i \notin excludedIndices
                  /\ (availableTileIndices # Null => i \in Range(availableTileIndices)) } }

\* candidatesCapped with the usage-cap test inverted
candidatesCappedAtCap(targetColor, photoColors, usageCount, excludedIndices, diversityBonus, availableTileIndices, maxUsage) ==
  { [index |-> index,
     distance |-> Plus(colorDistance(targetColor, photoColors[index]),
                       usagePenalty(usageCount[index], diversityBonus)
                         - unusedPenalty(usageCount[index], diversityBonus)),
     usage |-> usageCount[index],
     originalDistance |-> colorDistance(targetColor, photoColors[index])] :
    index \in { i \in DOMAIN photoColors :
                  /\ i \notin excludedIndices
                  /\ (availableTileIndices # Null => i \in Range(availableTileIndices))
                  /\ ~ (usageCount[i] < maxUsage) } }

\* the candidate records of the hexagon build: tiles at the usage cap are skipped
candidatesCapped(targetColor, photoColors, usageCount, excludedIndices, diversityBonus, availableTileIndices, maxUsage) ==
  { [index |-> index,
     distance |-> Plus(colorDistance(targetColor, photoColors[index]),
                       usagePenalty(usageCount[index], diversityBonus)
                         - unusedPenalty(usageCount[index], diversityBonus)),
     usage |-> usageCount[index],
     originalDistance |-> colorDistance(targetColor, photoColors[index])] :
    index \in { i \in DOMAIN photoColors :
                  /\ i \notin excludedIndices
                  /\ (availableTileIndices # Null => i \in Range(availableTileIndices))
                  /\ ~ (usageCount[i] >= maxUsage) } }

\* fallback that takes the first allow-listed index, excluded or not
fallbackAny(excludedIndices, availableTileIndices) ==
  IF availableTileIndices # Null /\ Len(availableTileIndices) > 0
  THEN availableTileIndices[1]
  ELSE 0

\* the branch taken when no candidate is left: the first allow-listed index
\* that is not excluded, else 0
fallback(excludedIndices, availableTileIndices) ==
  IF availableTileIndices # Null /\ Len(availableTileIndices) > 0
     /\ \E i \in DOMAIN availableTileIndices : availableTileIndices[i] \notin excludedIndices
  THEN LET first == CHOOSE i \in DOMAIN availableTileIndices :
                      /\ availableTileIndices[i] \notin excludedIndices
                      /\ \A j \in 1..(i - 1) : availableTileIndices[j] \in excludedIndices
       IN  availableTileIndices[first]
  ELSE 0

\* candidates.sort((a, b) => a.distance - b.distance): stable, so candidates
\* of equal distance keep their index order (a NaN difference compares equal)
byDistance(a, b) ==
  a.distance < b.distance \/ (a.distance = b.distance /\ a.index < b.index)

\* similarCandidates.sort: by usage, then by originalDistance, stable
byUsage(a, b) ==
  \/ a.usage < b.usage
  \/ a.usage = b.usage /\ a.originalDistance < b.originalDistance
  \/ a.usage = b.usage /\ a.originalDistance = b.originalDistance /\ byDistance(a, b)

\* the candidates in the order candidates.sort leaves them in
sortByDistance(S) ==
  [i \in 1..Cardinality(S) |->
     CHOOSE e \in S : Cardinality({f \in S : byDistance(f, e)}) = i - 1]

\* the similar candidates in the order similarCandidates.sort leaves them in
sortByUsage(S) ==
  [i \in 1..Cardinality(S) |->
     CHOOSE e \in S : Cardinality({f \in S : byUsage(f, e)}) = i - 1]

\* sort by adjusted distance, keep the top 20, keep those within twice the
\* best distance, sort them by (usage, originalDistance), return the first
selectFrom(cands) ==
  LET sorted == sortByDistance(cands)
      topCandidates == SubSeq(sorted, 1, Min(TOP_CANDIDATES, Len(sorted)))
      minDistance == topCandidates[1].distance
      similarCandidates == { c \in Range(topCandidates) : c.distance <= Twice(minDistance) }
      similarSorted == sortByUsage(similarCandidates)
  IN  IF Len(topCandidates) > 1
      THEN IF similarCandidates # {} THEN similarSorted[1].index ELSE topCandidates[1].index
      ELSE topCandidates[1].index

\* a matcher that walks the allow-list instead of the catalog: among the
\* candidates at the least distance the one listed first wins
findBestMatchListOrder(targetColor, photoColors, usageCount, excludedIndices, diversityBonus, availableTileIndices) ==
  LET cands == candidates(targetColor, photoColors, usageCount, excludedIndices,
                          diversityBonus, availableTileIndices)
      least == { c \in cands : \A d \in cands : c.distance <= d.distance }
      first == CHOOSE k \in DOMAIN availableTileIndices :
                 /\ \E c \in least : c.index = availableTileIndices[k]
                 /\ \A j \in 1..(k - 1) : \A c \in least : c.index # availableTileIndices[j]
  IN  IF cands = {} THEN fallback(excludedIndices, availableTileIndices)
      ELSE IF availableTileIndices = Null THEN selectFrom(cands)
      ELSE availableTileIndices[first]

\* findBestMatch of src/src/App.jsx (no usage cap)
findBestMatch(targetColor, photoColors, usageCount, excludedIndices, diversityBonus, availableTileIndices) ==
  LET cands == candidates(targetColor, photoColors, usageCount, excludedIndices,
                          diversityBonus, availableTileIndices)
  IN  IF cands = {} THEN fallback(excludedIndices, availableTileIndices)
      ELSE selectFrom(cands)

\* findBestMatch of the hexagon build (usage cap maxUsage)
findBestMatchCapped(targetColor, photoColors, usageCount, excludedIndices, diversityBonus, availableTileIndices, maxUsage) ==
  LET cands == candidatesCapped(targetColor, photoColors, usageCount, excludedIndices,
                                diversityBonus, availableTileIndices, maxUsage)
  IN  IF cands = {} THEN fallback(excludedIndices, availableTileIndices)
      ELSE selectFrom(cands)

\* ------------------------------------------------------------------------
\* Quadtree partitioner
\* ------------------------------------------------------------------------
\* brightness of the bright pixels of the analysis rasters (pixels are gray:
\* r = g = b); two levels 0 and Bright put the variance of a mixed area on
\* both sides of VARIANCE_THRESHOLD
Bright == 40

\* imageData.data of an analysis raster: the gray value of pixel (px, py)
pixel(imageData, px, py) ==
  CASE imageData.pattern = "uniform" -> Bright
    [] imageData.pattern = "halves" -> IF 2 * px < imageData.width THEN 0 ELSE Bright
    [] imageData.pattern = "checker" -> IF (px + py) % 2 = 0 THEN 0 ELSE Bright
    [] OTHER -> 0

RECURSIVE sumOfRow(_, _, _, _, _)
sumOfRow(imageData, py, px, endX, square) ==
  IF px >= endX THEN 0
  ELSE (IF square THEN pixel(imageData, px, py) * pixel(imageData, px, py)
                  ELSE pixel(imageData, px, py))
       + sumOfRow(imageData, py, px + 1, endX, square)

\* the sums of the pixel loops: of the values, or of their squares
RECURSIVE sumOfArea(_, _, _, _, _, _)
sumOfArea(imageData, py, endY, x, endX, square) ==
  IF py >= endY THEN 0
  ELSE sumOfRow(imageData, py, x, endX, square)
       + sumOfArea(imageData, py + 1, endY, x, endX, square)

\* varR + varG + varB of the area, as the exact fraction num / den
calculateVariance(imageData, x, y, size, canvasWidth) ==
  LET endX == Min(x + size, canvasWidth)
      endY == Min(y + size, imageData.height)
      count == Max(endX - x, 0) * Max(endY - y, 0)
      sum == sumOfArea(imageData, y, endY, x, endX, FALSE)
      sum2 == sumOfArea(imageData, y, endY, x, endX, TRUE)
  IN  IF count = 0 THEN [num |-> 0, den |-> 1]
      ELSE [num |-> 3 * (count * sum2 - sum * sum), den |-> count * count]

\* variance > threshold
exceeds(variance, threshold) == variance.num > threshold * variance.den

\* Math.round(sum / count) of non-negative integers
roundDiv(sum, count) == (2 * sum + count) \div (2 * count)

\* average colour of the area; gray 128 when the area holds no pixel
getAreaColor(imageData, x, y, size, canvasWidth) ==
  LET endX == Min(x + size, canvasWidth)
      endY == Min(y + size, imageData.height)
      startX == Max(0, x)
      startY == Max(0, y)
      count == Max(endX - startX, 0) * Max(endY - startY, 0)
      sum == sumOfArea(imageData, startY, endY, startX, endX, FALSE)
  IN  IF count = 0 THEN Rgb(128, 128, 128)
      ELSE Rgb(roundDiv(sum, count), roundDiv(sum, count), roundDiv(sum, count))

\* new QuadNode(x, y, size, depth): children null, avgColor null
QuadNode(x, y, size, depth) ==
  [x |-> x, y |-> y, size |-> size, depth |-> depth, avgColor |-> InvalidColor]

\* QuadNode.subdivide: the four children, in the order they are queued
subdivide(node) ==
  LET halfSize == node.size \div 2
  IN  << QuadNode(node.x, node.y, halfSize, node.depth + 1),
         QuadNode(node.x + halfSize, node.y, halfSize, node.depth + 1),
         QuadNode(node.x, node.y + halfSize, halfSize, node.depth + 1),
         QuadNode(node.x + halfSize, node.y + halfSize, halfSize, node.depth + 1) >>

\* Math.pow(2, Math.ceil(Math.log2(n)))
RECURSIVE powerOfTwoFrom(_, _)
powerOfTwoFrom(n, p) == IF p >= n THEN p ELSE powerOfTwoFrom(n, 2 * p)

rootSize(canvasWidth, canvasHeight) == powerOfTwoFrom(Max(canvasWidth, canvasHeight), 1)

\* actualSize of buildQuadtree: one size clipped by both raster edges
actualSize(node, canvasWidth, canvasHeight) ==
  Min(node.size, Min(canvasWidth - node.x, canvasHeight - node.y))

\* actualSize > minTileSize, minTileSize = min(w, h) / MAX_TILES_PER_DIMENSION
aboveMinTileSize(size, canvasWidth, canvasHeight) ==
  size * MAX_TILES_PER_DIMENSION > Min(canvasWidth, canvasHeight)

\* actualSize > maxTileSize, maxTileSize = min(w, h) / MIN_TILES_PER_DIMENSION
aboveMaxTileSize(size, canvasWidth, canvasHeight) ==
  size * MIN_TILES_PER_DIMENSION > Min(canvasWidth, canvasHeight)

\* a rule without the max size: only the variance splits a node
shouldSplitByVariance(imageData, node, canvasWidth, canvasHeight) ==
  LET size == actualSize(node, canvasWidth, canvasHeight)
      variance == calculateVariance(imageData, node.x, node.y, size, canvasWidth)
  IN  exceeds(variance, VARIANCE_THRESHOLD) /\ aboveMinTileSize(size, canvasWidth, canvasHeight)

\* a rule that splits every node above minTileSize
shouldSplitAlways(imageData, node, canvasWidth, canvasHeight) == TRUE

\* shouldSplit of buildQuadtree, for a node with actualSize > minTileSize
shouldSplit(imageData, node, canvasWidth, canvasHeight) ==
  LET size == actualSize(node, canvasWidth, canvasHeight)
      variance == calculateVariance(imageData, node.x, node.y, size, canvasWidth)
  IN  \/ exceeds(variance, VARIANCE_THRESHOLD) /\ aboveMinTileSize(size, canvasWidth, canvasHeight)
      \/ aboveMaxTileSize(size, canvasWidth, canvasHeight)

\* ------------------------------------------------------------------------
\* Mask and opacity shading
\* ------------------------------------------------------------------------
\* a null maskData (loadMask failed)
NoMaskData == [width |-> 0, height |-> 0, pattern |-> "none"]

\* imageData.data[idx + 3] of a mask: the alpha of pixel (px, py)
alpha(maskData, px, py) ==
  CASE maskData.pattern = "opaque" -> 255
    [] maskData.pattern = "clear" -> 0
    [] maskData.pattern = "left" -> IF 2 * px < maskData.width THEN 0 ELSE 255
    [] maskData.pattern = "corner" -> IF px = 0 /\ py = 0 THEN 0 ELSE 255
    [] maskData.pattern = "faint" -> IF 2 * py < maskData.height THEN 128 ELSE 129
    [] OTHER -> 255

\* a test that takes only an alpha below 128 for transparent
isTransparentInMaskBelow(x, y, maskData) ==
  IF maskData = NoMaskData THEN FALSE
  ELSE IF x < 0 \/ x >= maskData.width \/ y < 0 \/ y >= maskData.height THEN FALSE
  ELSE alpha(maskData, x, y) < 128

\* a pixel is transparent when it lies in the mask and its alpha is <= 128
isTransparentInMask(x, y, maskData) ==
  IF maskData = NoMaskData THEN FALSE
  ELSE IF x < 0 \/ x >= maskData.width \/ y < 0 \/ y >= maskData.height THEN FALSE
  ELSE alpha(maskData, x, y) <= 128

\* Math.floor of a number in 1/SCALE
mathFloor(v) == IF v >= 0 THEN v \div SCALE ELSE - ((SCALE - 1 - v) \div SCALE)

\* isTransparentInMask at a point given in 1/SCALE: px = Math.floor(x),
\* py = Math.floor(y)
isTransparentInMaskAt(x, y, maskData) ==
  isTransparentInMask(mathFloor(x), mathFloor(y), maskData)

\* Math.sqrt(dx * dx + dy * dy) in 1/SCALE
offsetDistance(dx, dy) == ISqrt((dx * dx + dy * dy) * SCALE * SCALE)

\* distance, in 1/SCALE, to the nearest transparent pixel of the square of
\* half-side searchRadius around (x, y), scanned row by row; the scan returns
\* at the first pixel closer than 2; Infinity when the square holds none
distanceToTransparentMask(x, y, maskData, maxSearchDistance) ==
  IF maskData = NoMaskData THEN Infinity
  ELSE IF isTransparentInMask(x, y, maskData) THEN 0
  ELSE LET searchRadius == Min(maxSearchDistance,
                               (3 * Max(maskData.width, maskData.height)) \div 10)
           offsets == (0 - searchRadius)..searchRadius
           found == { d \in offsets \X offsets :
                        isTransparentInMask(x + d[1], y + d[2], maskData) }
           near == { d \in found : offsetDistance(d[1], d[2]) < 2 * SCALE }
           firstNear == CHOOSE d \in near :
                          \A e \in near : e[2] > d[2] \/ (e[2] = d[2] /\ e[1] >= d[1])
           nearest == CHOOSE d \in found :
                        \A e \in found : offsetDistance(d[1], d[2]) <= offsetDistance(e[1], e[2])
       IN  IF found = {} THEN Infinity
           ELSE IF near # {} THEN offsetDistance(firstNear[1], firstNear[2])
           ELSE offsetDistance(nearest[1], nearest[2])

\* calculateTileOpacity that takes a missing mask for a clear one
calculateTileOpacityClearDefault(tileCenterX, tileCenterY, containerWidth, containerHeight, maskData, averageTileSize) ==
  IF maskData = NoMaskData THEN MIN_OPACITY
  ELSE IF isTransparentInMask(tileCenterX, tileCenterY, maskData) THEN MIN_OPACITY
  ELSE LET maxSearchDistance == averageTileSize * OPACITY_TRANSITION_TILES * 3
           minDistanceToMask == distanceToTransparentMask(tileCenterX, tileCenterY,
                                                          maskData, maxSearchDistance)
           transitionDistance == averageTileSize * OPACITY_TRANSITION_TILES * SCALE
           opacity == MIN_OPACITY
                        + ((MAX_OPACITY - MIN_OPACITY) * Min(minDistanceToMask, transitionDistance))
                            \div transitionDistance
       IN  IF minDistanceToMask = Infinity THEN MAX_OPACITY
           ELSE Max(MIN_OPACITY, Min(MAX_OPACITY, opacity))

\* opacity of a tile from the mask, in 1/SCALE
calculateTileOpacity(tileCenterX, tileCenterY, containerWidth, containerHeight, maskData, averageTileSize) ==
  IF maskData = NoMaskData THEN MAX_OPACITY
  ELSE IF isTransparentInMask(tileCenterX, tileCenterY, maskData) THEN MIN_OPACITY
  ELSE LET maxSearchDistance == averageTileSize * OPACITY_TRANSITION_TILES * 3
           minDistanceToMask == distanceToTransparentMask(tileCenterX, tileCenterY,
                                                          maskData, maxSearchDistance)
           transitionDistance == averageTileSize * OPACITY_TRANSITION_TILES * SCALE
           opacity == MIN_OPACITY
                        + ((MAX_OPACITY - MIN_OPACITY) * Min(minDistanceToMask, transitionDistance))
                            \div transitionDistance
       IN  IF minDistanceToMask = Infinity THEN MAX_OPACITY
           ELSE Max(MIN_OPACITY, Min(MAX_OPACITY, opacity))

\* centre of a hexagon inside the placement of the hero (edges included)
isOnMainImage(centerX, centerY, mainImg) ==
  /\ centerX >= mainImg.x
  /\ centerX <= mainImg.x + mainImg.width
  /\ centerY >= mainImg.y
  /\ centerY <= mainImg.y + mainImg.height

\* distance from a point of the hero to the nearest edge of the hero
minDistToBorder(maskX, maskY, mainImg) ==
  Min(Min(maskX, mainImg.width - maskX), Min(maskY, mainImg.height - maskY))

\* opacity of a hexagon: the mask opacity, scaled down linearly inside the
\* border gradient of the hero; MAX_OPACITY off the hero
hexagonOpacity(centerX, centerY, mainImg, maskData, averageTileSize) ==
  IF isOnMainImage(centerX, centerY, mainImg)
  THEN LET maskX == centerX - mainImg.x
           maskY == centerY - mainImg.y
           opacity == calculateTileOpacity(maskX, maskY, mainImg.width, mainImg.height,
                                           maskData, averageTileSize)
           borderGradientWidthValue == averageTileSize * BORDER_GRADIENT_WIDTH_MULTIPLIER
           dist == minDistToBorder(maskX, maskY, mainImg) * SCALE
       IN  IF dist < borderGradientWidthValue
           THEN (opacity * dist) \div borderGradientWidthValue
           ELSE opacity
  ELSE MAX_OPACITY

\* a tile centre of the quadtree build lies strictly inside the hero when the
\* tile is a leaf of the quadtree; the cells of the background fill lie outside
isLeafTile(centerX, centerY, mainImg) ==
  /\ centerX > mainImg.x
  /\ centerX < mainImg.x + mainImg.width
  /\ centerY > mainImg.y
  /\ centerY < mainImg.y + mainImg.height

\* opacity of a region of the quadtree build: the mask opacity for a leaf,
\* MAX_OPACITY for a cell of the background fill
quadtreeOpacity(centerX, centerY, mainImg, maskData, averageTileSize) ==
  IF isLeafTile(centerX, centerY, mainImg)
  THEN calculateTileOpacity(centerX - mainImg.x, centerY - mainImg.y,
                            mainImg.width, mainImg.height, maskData, averageTileSize)
  ELSE MAX_OPACITY

\* ------------------------------------------------------------------------
\* Generation pass (generateMosaic) and the App state around it
\* ------------------------------------------------------------------------
VARIABLES
  strategy,              \* "quadtree" (src/src/App.jsx) or "hexagon" (part_001) build
  photoColors,           \* catalog colours, index -> avgColor
  pendingChecks,         \* loadImages: tile-existence checks not yet completed
  availableIndices,      \* loadImages: local Set filled by the completed checks
  availableTileIndices,  \* state: allow-list, in insertion order
  tilesLoaded,           \* state: all tile checks done
  currentMainIndex,      \* state: catalog index of the hero photo
  containerSize,         \* state: container width (0 = not measured yet)
  tiles,                 \* state: displayed Region list
  tilesPass,             \* history: number of the pass that set tiles (0 = none)
  mainImageUrl,          \* state: hero shown behind the tiles (NaN = none)
  mainImageSize,         \* state: placement of the hero
  edgeColors,            \* state: hero whose edge colours colour the background
  maskData,              \* state: mask of the displayed mosaic
  passes,                \* the calls of generateMosaic, in start order
  eventsLeft,            \* resize and navigation events still to come
  matchCall,             \* one call of findBestMatch: arguments, result, caller's count
  quad,                  \* one call of buildQuadtree: raster, queue, leaf nodes
  shade,                 \* the opacity computation of one region
  highRes,               \* one call of downloadHighRes: progress and canvas
  tileFiles,             \* environment: catalog indices whose tile file exists in /tiles/
  tileImageUrls,         \* state: catalog indices that have a loaded tile URL
  twin,                  \* two region loops run on the same inputs
  hexGrid,               \* one computation of the hexagon side and of the centre grid
  maskProbe,             \* one call of isTransparentInMask: mask, point, result
  imageCache             \* the ImageCache of one url and the calls in flight on it

passVars == << strategy, photoColors, pendingChecks, availableIndices,
               availableTileIndices, tilesLoaded, currentMainIndex, containerSize,
               tiles, tilesPass, mainImageUrl, mainImageSize, edgeColors, maskData,
               passes,
               eventsLeft >>

\* the variables that only the specifications of single operations use
sideVars == << tileFiles, tileImageUrls, twin, hexGrid, maskProbe, imageCache >>

PoolIndices == 0..(PoolSize - 1)

Black == Rgb(0, 0, 0)
Red == Rgb(3, 0, 0)
Green == Rgb(0, 4, 0)

\* colours a catalog entry can carry (avgColor may be missing or malformed)
PoolColors == {Black, Red, InvalidColor}
\* colours a region can sample (getAreaColor never returns an invalid colour)
TargetColors == {Black, Green}

NoPlacement == [hero |-> NaN, size |-> 0]
NoMask == [hero |-> NaN, size |-> 0]

\* no call of buildQuadtree, no region being shaded
NoQuad == [pc |-> "none"]
NoShade == [pc |-> "none"]
\* downloadHighRes has not been called
NoExport ==
  [pc |-> "none", isGeneratingHighRes |-> FALSE,
   pending |-> {}, loaded |-> {}, skipped |-> {}, thrown |-> {}, canvas |-> << >>]
\* no twin loops, no grid computation, no mask probe
NoTwin == [pc |-> "none"]
NoGrid == [pc |-> "none"]
NoProbe == [pc |-> "none"]
\* no image cache under observation
NoCache == [pc |-> "none"]

\* nothing is loaded for display and no single operation is under way
SideIdle ==
  /\ tileFiles = {}
  /\ tileImageUrls = {}
  /\ twin = NoTwin
  /\ hexGrid = NoGrid
  /\ maskProbe = NoProbe
  /\ imageCache = NoCache

zeroUsage == [i \in PoolIndices |-> 0]

\* increment that forgets the earlier uses
incrementReset(usageCount, bestIndex) ==
  [usageCount EXCEPT ![bestIndex] = 1]

\* usageCount.set(bestIndex, (usageCount.get(bestIndex) || 0) + 1)
increment(usageCount, bestIndex) ==
  [usageCount EXCEPT ![bestIndex] = usageCount[bestIndex] + 1]

Running == \E p \in DOMAIN passes : passes[p].pc = "matching"

\* catalogs: the palette repeated from one of its colours on, or one colour only
Palette == << Black, Red, InvalidColor >>
Pools == { [i \in PoolIndices |-> Palette[((i + shift) % Len(Palette)) + 1]] : shift \in {0, 2} }
           \cup { [i \in PoolIndices |-> Black] }

PassInit ==
  /\ strategy \in {"quadtree", "hexagon"}
  /\ photoColors \in Pools
  /\ eventsLeft = 1
  /\ pendingChecks = PoolIndices
  /\ availableIndices = << >>
  /\ availableTileIndices = << >>
  /\ tilesLoaded = FALSE
  /\ currentMainIndex \in PoolIndices
  /\ containerSize = 0
  /\ tiles = << >>
  /\ tilesPass = 0
  /\ mainImageUrl = NaN
  /\ mainImageSize = NoPlacement
  /\ edgeColors = NaN
  /\ maskData = NoMask
  /\ passes = << >>

\* the guard of generateMosaic and of the effect that calls it; a call that
\* passes it runs up to the first await (the hero image)
startPass ==
  IF tilesLoaded' /\ containerSize' > 0 /\ Len(availableTileIndices') > 0
  THEN passes' = Append(passes,
         [pc |-> "awaitHero", hero |-> currentMainIndex', size |-> containerSize',
          avail |-> availableTileIndices', mask |-> FALSE, total |-> 0,
          usageCount |-> zeroUsage, newTiles |-> << >>])
  ELSE passes' = passes

\* one tile-existence check of loadImages completes
CheckTile ==
  /\ ~ Running
  /\ \E index \in pendingChecks, cachedUrl \in BOOLEAN :
       /\ pendingChecks' = pendingChecks \ {index}
       /\ availableIndices' = IF cachedUrl THEN Append(availableIndices, index)
                                           ELSE availableIndices
  /\ UNCHANGED << strategy, photoColors, availableTileIndices, tilesLoaded,
                  currentMainIndex, containerSize, tiles, tilesPass, mainImageUrl,
                  mainImageSize, edgeColors, maskData, passes, eventsLeft, matchCall, quad, shade, highRes, sideVars >>

\* loadImages publishing without waiting for the outstanding checks
FinishLoadingEarly ==
  /\ ~ Running
  /\ ~ tilesLoaded
  /\ availableTileIndices' = availableIndices
  /\ tilesLoaded' = TRUE
  /\ UNCHANGED << currentMainIndex, containerSize >>
  /\ startPass
  /\ UNCHANGED << strategy, photoColors, pendingChecks, availableIndices,
                  tiles, tilesPass, mainImageUrl, mainImageSize, edgeColors, maskData, eventsLeft, matchCall, quad, shade, highRes, sideVars >>

\* loadImages after Promise.all: publish the allow-list, set tilesLoaded
FinishLoading ==
  /\ ~ Running
  /\ pendingChecks = {}
  /\ ~ tilesLoaded
  /\ availableTileIndices' = availableIndices
  /\ tilesLoaded' = TRUE
  /\ UNCHANGED << currentMainIndex, containerSize >>
  /\ startPass
  /\ UNCHANGED << strategy, photoColors, pendingChecks, availableIndices,
                  tiles, tilesPass, mainImageUrl, mainImageSize, edgeColors, maskData, eventsLeft, matchCall, quad, shade, highRes, sideVars >>

\* updateSize: the container is measured or resized
Resize ==
  /\ ~ Running
  /\ eventsLeft > 0
  /\ eventsLeft' = eventsLeft - 1
  /\ \E w \in 1..MaxSize : w # containerSize /\ containerSize' = w
  /\ UNCHANGED << availableTileIndices, tilesLoaded, currentMainIndex >>
  /\ startPass
  /\ UNCHANGED << strategy, photoColors, pendingChecks, availableIndices,
                  tiles, tilesPass, mainImageUrl, mainImageSize, edgeColors, maskData, matchCall, quad, shade, highRes, sideVars >>

\* navigation: another hero photo becomes current
ChangeHero ==
  /\ ~ Running
  /\ eventsLeft > 0
  /\ eventsLeft' = eventsLeft - 1
  /\ \E h \in PoolIndices : h # currentMainIndex /\ currentMainIndex' = h
  /\ UNCHANGED << availableTileIndices, tilesLoaded, containerSize >>
  /\ startPass
  /\ UNCHANGED << strategy, photoColors, pendingChecks, availableIndices,
                  tiles, tilesPass, mainImageUrl, mainImageSize, edgeColors, maskData, matchCall, quad, shade, highRes, sideVars >>

\* a hero failure that clears the displayed Region list
HeroFailedClearing(p) ==
  /\ ~ Running
  /\ passes[p].pc = "awaitHero"
  /\ passes' = [passes EXCEPT ![p].pc = "heroFailed"]
  /\ tiles' = << >>
  /\ UNCHANGED << strategy, photoColors, pendingChecks, availableIndices,
                  availableTileIndices, tilesLoaded, currentMainIndex, containerSize,
                  tilesPass, mainImageUrl, mainImageSize, edgeColors, maskData, eventsLeft, matchCall, quad, shade, highRes, sideVars >>

\* the hero image fails to load: the pass returns
HeroFailed(p) ==
  /\ ~ Running
  /\ passes[p].pc = "awaitHero"
  /\ passes' = [passes EXCEPT ![p].pc = "heroFailed"]
  /\ UNCHANGED << strategy, photoColors, pendingChecks, availableIndices,
                  availableTileIndices, tilesLoaded, currentMainIndex, containerSize,
                  tiles, tilesPass, mainImageUrl, mainImageSize, edgeColors, maskData, eventsLeft, matchCall, quad, shade, highRes, sideVars >>

\* the hero image loads: setMainImageUrl, setMainImageSize, setEdgeColors,
\* then await loadMask
HeroLoaded(p) ==
  /\ ~ Running
  /\ passes[p].pc = "awaitHero"
  /\ mainImageUrl' = passes[p].hero
  /\ mainImageSize' = [hero |-> passes[p].hero, size |-> passes[p].size]
  /\ edgeColors' = passes[p].hero
  /\ passes' = [passes EXCEPT ![p].pc = "awaitMask"]
  /\ UNCHANGED << strategy, photoColors, pendingChecks, availableIndices,
                  availableTileIndices, tilesLoaded, currentMainIndex, containerSize,
                  tiles, tilesPass, maskData, eventsLeft, matchCall, quad, shade, highRes, sideVars >>

\* loadMask resolves (mask or null); the partitioner runs: regions is the
\* number of quadtree leaves plus background cells, or of hexagon centres
MaskLoaded(p) ==
  /\ ~ Running
  /\ passes[p].pc = "awaitMask"
  /\ \E mask \in BOOLEAN, regions \in 0..MaxRegions :
       passes' = [passes EXCEPT ![p] =
         IF strategy = "hexagon" /\ regions = 0
         THEN [@ EXCEPT !.pc = "aborted", !.mask = mask]
         ELSE [@ EXCEPT !.pc = "matching", !.mask = mask,
                        !.total = IF strategy = "hexagon"
                                  THEN Min(Len(passes[p].avail), regions)
                                  ELSE regions]]
  /\ UNCHANGED << strategy, photoColors, pendingChecks, availableIndices,
                  availableTileIndices, tilesLoaded, currentMainIndex, containerSize,
                  tiles, tilesPass, mainImageUrl, mainImageSize, edgeColors, maskData, eventsLeft, matchCall, quad, shade, highRes, sideVars >>

\* the matcher call the pass makes for a region of colour targetColor
matchFor(p, targetColor, diversityBonus) ==
  IF strategy = "hexagon"
  THEN findBestMatchCapped(targetColor, photoColors, passes[p].usageCount,
                           {passes[p].hero}, DEFAULT_DIVERSITY_BONUS,
                           passes[p].avail, MAX_TILE_USAGE)
  ELSE findBestMatch(targetColor, photoColors, passes[p].usageCount,
                     {passes[p].hero}, diversityBonus, passes[p].avail)

\* a region loop that counts the use in the ledger of every pass
ResolveRegionShared(p) ==
  /\ passes[p].pc = "matching"
  /\ Len(passes[p].newTiles) < passes[p].total
  /\ \E targetColor \in TargetColors,
        diversityBonus \in {DEFAULT_DIVERSITY_BONUS, EDGE_DIVERSITY_BONUS} :
       LET bestIndex == matchFor(p, targetColor, diversityBonus)
       IN  passes' = [q \in DOMAIN passes |->
             IF q = p
             THEN [passes[q] EXCEPT
                     !.usageCount = increment(@, bestIndex),
                     !.newTiles = Append(@, [imageIndex |-> bestIndex, avgColor |-> targetColor])]
             ELSE [passes[q] EXCEPT !.usageCount = increment(@, bestIndex)]]
  /\ UNCHANGED << strategy, photoColors, pendingChecks, availableIndices,
                  availableTileIndices, tilesLoaded, currentMainIndex, containerSize,
                  tiles, tilesPass, mainImageUrl, mainImageSize, edgeColors, maskData, eventsLeft, matchCall, quad, shade, highRes, sideVars >>

\* one iteration of the region loop: match, count the use, emit the region
ResolveRegion(p) ==
  /\ passes[p].pc = "matching"
  /\ Len(passes[p].newTiles) < passes[p].total
  /\ \E targetColor \in TargetColors,
        diversityBonus \in {DEFAULT_DIVERSITY_BONUS, EDGE_DIVERSITY_BONUS} :
       LET bestIndex == matchFor(p, targetColor, diversityBonus)
       IN  passes' = [passes EXCEPT
             ![p].usageCount = increment(@, bestIndex),
             ![p].newTiles = Append(@, [imageIndex |-> bestIndex, avgColor |-> targetColor])]
  /\ UNCHANGED << strategy, photoColors, pendingChecks, availableIndices,
                  availableTileIndices, tilesLoaded, currentMainIndex, containerSize,
                  tiles, tilesPass, mainImageUrl, mainImageSize, edgeColors, maskData, eventsLeft, matchCall, quad, shade, highRes, sideVars >>

\* the end of generateMosaic: setMaskData(currentMaskData); setTiles(newTiles)
Commit(p) ==
  /\ passes[p].pc = "matching"
  /\ Len(passes[p].newTiles) = passes[p].total
  /\ maskData' = IF passes[p].mask
                 THEN [hero |-> passes[p].hero, size |-> passes[p].size]
                 ELSE NoMask
  /\ tiles' = passes[p].newTiles
  /\ tilesPass' = p
  /\ passes' = [passes EXCEPT ![p].pc = "done"]
  /\ UNCHANGED << strategy, photoColors, pendingChecks, availableIndices,
                  availableTileIndices, tilesLoaded, currentMainIndex, containerSize,
                  mainImageUrl, mainImageSize, edgeColors, eventsLeft, matchCall, quad, shade, highRes, sideVars >>

Next ==
  \/ CheckTile
  \/ FinishLoading
  \/ Resize
  \/ ChangeHero
  \/ \E p \in DOMAIN passes : HeroFailed(p)
  \/ \E p \in DOMAIN passes : HeroLoaded(p)
  \/ \E p \in DOMAIN passes : MaskLoaded(p)
  \/ \E p \in DOMAIN passes : ResolveRegion(p)
  \/ \E p \in DOMAIN passes : Commit(p)

\* ------------------------------------------------------------------------
\* A single call of findBestMatch on arbitrary arguments
\* ------------------------------------------------------------------------
NoCall == [pc |-> "none"]

\* allow-lists: the indices of a subset in ascending or descending insertion order
RECURSIVE Ascending(_)
Ascending(S) ==
  IF S = {} THEN << >>
  ELSE LET m == CHOOSE x \in S : \A y \in S : x <= y
       IN  << m >> \o Ascending(S \ {m})

Reverse(s) == [i \in 1..Len(s) |-> s[Len(s) + 1 - i]]

AllowLists == { Ascending(S) : S \in SUBSET PoolIndices }
                \cup { Reverse(Ascending(S)) : S \in SUBSET PoolIndices }

\* no pass and no loading in progress
PassIdle ==
  /\ pendingChecks = {}
  /\ availableIndices = << >>
  /\ availableTileIndices = << >>
  /\ tilesLoaded = FALSE
  /\ currentMainIndex = 0
  /\ containerSize = 0
  /\ tiles = << >>
  /\ tilesPass = 0
  /\ mainImageUrl = NaN
  /\ mainImageSize = NoPlacement
  /\ edgeColors = NaN
  /\ maskData = NoMask
  /\ passes = << >>
  /\ eventsLeft = 0

MatchInit ==
  /\ PassIdle
  /\ quad = NoQuad
  /\ shade = NoShade
  /\ highRes = NoExport
  /\ SideIdle
  /\ strategy \in {"quadtree", "hexagon"}
  /\ photoColors \in Pools
  /\ \E targetColor \in TargetColors,
        usageCount \in [PoolIndices -> 0..MaxCount],
        excludedIndices \in {{}} \cup { {h} : h \in PoolIndices },
        allowList \in {Null} \cup AllowLists,
        maxUsage \in 1..MAX_TILE_USAGE :
       matchCall = [pc |-> "args", targetColor |-> targetColor, usageCount |-> usageCount,
                    excludedIndices |-> excludedIndices,
                    availableTileIndices |-> allowList,
                    maxUsage |-> maxUsage, bestIndex |-> NaN]

\* a call that also adds one to every entry of the ledger
CallFindBestMatchCounting ==
  /\ matchCall.pc = "args"
  /\ matchCall' = [matchCall EXCEPT
       !.pc = "returned",
       !.usageCount = [i \in DOMAIN @ |-> @[i] + 1],
       !.bestIndex =
          IF strategy = "hexagon"
          THEN findBestMatchCapped(matchCall.targetColor, photoColors, matchCall.usageCount,
                                   matchCall.excludedIndices, DEFAULT_DIVERSITY_BONUS,
                                   matchCall.availableTileIndices, matchCall.maxUsage)
          ELSE findBestMatch(matchCall.targetColor, photoColors, matchCall.usageCount,
                             matchCall.excludedIndices, DEFAULT_DIVERSITY_BONUS,
                             matchCall.availableTileIndices)]
  /\ UNCHANGED << passVars, quad, shade, highRes, sideVars >>

\* the call: findBestMatch of the build, on the arguments of matchCall
CallFindBestMatch ==
  /\ matchCall.pc = "args"
  /\ matchCall' = [matchCall EXCEPT
       !.pc = "returned",
       !.bestIndex =
          IF strategy = "hexagon"
          THEN findBestMatchCapped(matchCall.targetColor, photoColors, matchCall.usageCount,
                                   matchCall.excludedIndices, DEFAULT_DIVERSITY_BONUS,
                                   matchCall.availableTileIndices, matchCall.maxUsage)
          ELSE findBestMatch(matchCall.targetColor, photoColors, matchCall.usageCount,
                             matchCall.excludedIndices, DEFAULT_DIVERSITY_BONUS,
                             matchCall.availableTileIndices)]
  /\ UNCHANGED << passVars, quad, shade, highRes, sideVars >>

\* the caller's statement after the call: count the use of the returned index
CountUse ==
  /\ matchCall.pc = "returned"
  /\ matchCall' = [matchCall EXCEPT
       !.pc = "counted",
       !.usageCount = increment(@, matchCall.bestIndex)]
  /\ UNCHANGED << passVars, quad, shade, highRes, sideVars >>

MatchNext == CallFindBestMatch \/ CountUse

\* ------------------------------------------------------------------------
\* A single call of findBestMatch on a catalog longer than the top-20 cut
\* ------------------------------------------------------------------------
\* catalog of TOP_CANDIDATES + MaxBeyond photos
LongPoolIndices == 0..(TOP_CANDIDATES + MaxBeyond - 1)

\* where the colour and the usage count of the catalog change: after the
\* first entry, before the last entry of the top-20 cut, at the cut
LongPoolSplits == {1, TOP_CANDIDATES - 1, TOP_CANDIDATES}

LongInit ==
  /\ PassIdle
  /\ quad = NoQuad
  /\ shade = NoShade
  /\ highRes = NoExport
  /\ SideIdle
  /\ strategy \in {"quadtree", "hexagon"}
  /\ \E colorSplit \in LongPoolSplits, headColor \in PoolColors, tailColor \in PoolColors :
       photoColors = [i \in LongPoolIndices |->
                        IF i < colorSplit THEN headColor ELSE tailColor]
  /\ \E targetColor \in TargetColors,
        usageSplit \in LongPoolSplits,
        headUsage \in 0..MaxCount, tailUsage \in 0..MaxCount,
        excludedIndices \in {{}, {0}} :
       matchCall = [pc |-> "args", targetColor |-> targetColor,
                    usageCount |-> [i \in LongPoolIndices |->
                                      IF i < usageSplit THEN headUsage ELSE tailUsage],
                    excludedIndices |-> excludedIndices,
                    availableTileIndices |-> Null,
                    maxUsage |-> MAX_TILE_USAGE, bestIndex |-> NaN]

\* ------------------------------------------------------------------------
\* A single call of buildQuadtree, one iteration of its loop at a time
\* ------------------------------------------------------------------------
\* analysis rasters: the smallest raster side keeps minTileSize at one pixel
\* or more, so that every node size is a whole number of pixels
MinRasterSide == MAX_TILES_PER_DIMENSION
RasterSides == MinRasterSide..(MinRasterSide + MaxExtra)
RasterPatterns == {"uniform", "halves", "checker"}

QuadInit ==
  /\ PassIdle
  /\ highRes = NoExport
  /\ SideIdle
  /\ strategy = "quadtree"
  /\ photoColors = [i \in PoolIndices |-> Black]
  /\ matchCall = NoCall
  /\ shade = NoShade
  /\ \E canvasWidth \in RasterSides, canvasHeight \in RasterSides,
        pattern \in RasterPatterns :
       quad = [pc |-> "building",
               imageData |-> [width |-> canvasWidth, height |-> canvasHeight,
                              pattern |-> pattern],
               queue |-> << QuadNode(0, 0, rootSize(canvasWidth, canvasHeight), 0) >>,
               leaves |-> {}]

\* one iteration of the while loop of buildQuadtree: a node outside the
\* raster is left as it is (a leaf without colour); a node is split, or it
\* becomes a leaf with its average colour and its clipped size
BuildStep ==
  /\ quad.pc = "building"
  /\ quad.queue # << >>
  /\ LET node == Head(quad.queue)
         canvasWidth == quad.imageData.width
         canvasHeight == quad.imageData.height
         size == actualSize(node, canvasWidth, canvasHeight)
     IN  quad' =
           IF node.x >= canvasWidth \/ node.y >= canvasHeight \/ size <= 0
           THEN [quad EXCEPT !.queue = Tail(@), !.leaves = @ \cup {node}]
           ELSE IF /\ aboveMinTileSize(size, canvasWidth, canvasHeight)
                   /\ shouldSplit(quad.imageData, node, canvasWidth, canvasHeight)
           THEN [quad EXCEPT !.queue = Tail(@) \o subdivide(node)]
           ELSE [quad EXCEPT
                   !.queue = Tail(@),
                   !.leaves = @ \cup {[node EXCEPT
                     !.avgColor = getAreaColor(quad.imageData, node.x, node.y, size, canvasWidth),
                     !.size = size]}]
  /\ UNCHANGED << passVars, matchCall, shade, highRes, sideVars >>

\* the queue is empty: buildQuadtree returns and collectLeaves gathers the
\* nodes without children
CollectLeaves ==
  /\ quad.pc = "building"
  /\ quad.queue = << >>
  /\ quad' = [quad EXCEPT !.pc = "collected"]
  /\ UNCHANGED << passVars, matchCall, shade, highRes, sideVars >>

QuadNext == BuildStep \/ CollectLeaves

\* ------------------------------------------------------------------------
\* Quadtree partitioner with caps (the build behind createPlacementAreas)
\* ------------------------------------------------------------------------
\* absoluteMinSize of the capped buildQuadtree
absoluteMinSize == 2

\* defaultMinTileSize = max(min(w, h) / 30, absoluteMinSize), thirty-fold
defaultMinTileSize30(canvasWidth, canvasHeight) ==
  Max(Min(canvasWidth, canvasHeight), 30 * absoluteMinSize)

\* defaultMaxTileSize = min(min(w, h) / 10, max(w, h)), doubled
\* defaultMinTileSize when that is not below it; thirty-fold
defaultMaxTileSize30(canvasWidth, canvasHeight) ==
  LET max30 == Min(3 * Min(canvasWidth, canvasHeight), 30 * Max(canvasWidth, canvasHeight))
      min30 == defaultMinTileSize30(canvasWidth, canvasHeight)
  IN  IF min30 >= max30 THEN 2 * min30 ELSE max30

\* shouldSplit of the capped buildQuadtree
shouldSplitCapped(imageData, node, canvasWidth, canvasHeight) ==
  LET size == actualSize(node, canvasWidth, canvasHeight)
      variance == calculateVariance(imageData, node.x, node.y, size, canvasWidth)
  IN  \/ /\ exceeds(variance, VARIANCE_THRESHOLD)
         /\ 30 * size > defaultMinTileSize30(canvasWidth, canvasHeight)
      \/ 30 * size > defaultMaxTileSize30(canvasWidth, canvasHeight)

\* rasters of the capped build: around a power of two, so that a root of
\* either size occurs
CappedSides == (8 - 1)..(8 + MaxExtra)

CappedInit ==
  /\ PassIdle
  /\ highRes = NoExport
  /\ SideIdle
  /\ strategy = "quadtree"
  /\ photoColors = [i \in PoolIndices |-> Black]
  /\ matchCall = NoCall
  /\ shade = NoShade
  /\ \E canvasWidth \in CappedSides, canvasHeight \in CappedSides,
        pattern \in RasterPatterns :
       quad = [pc |-> "capped",
               imageData |-> [width |-> canvasWidth, height |-> canvasHeight,
                              pattern |-> pattern],
               queue |-> << QuadNode(0, 0, rootSize(canvasWidth, canvasHeight), 0) >>,
               leaves |-> {},
               iterations |-> 0]

\* a depth test that lets the nodes at the cap be subdivided once more
atMaxDepthLate(node) == node.depth > MaxDepth

\* node.depth >= maxDepth
atMaxDepth(node) == node.depth >= MaxDepth

\* one iteration of the while loop of the capped buildQuadtree
CappedBuildStep ==
  /\ quad.pc = "capped"
  /\ quad.queue # << >>
  /\ quad.iterations < MaxIterations
  /\ LET node == Head(quad.queue)
         canvasWidth == quad.imageData.width
         canvasHeight == quad.imageData.height
         size == actualSize(node, canvasWidth, canvasHeight)
         leaf == [node EXCEPT
                    !.avgColor = getAreaColor(quad.imageData, node.x, node.y, size, canvasWidth),
                    !.size = size]
     IN  quad' =
           IF node.x >= canvasWidth \/ node.y >= canvasHeight \/ size <= 0
           THEN [quad EXCEPT !.queue = Tail(@), !.leaves = @ \cup {node},
                             !.iterations = @ + 1]
           ELSE IF atMaxDepth(node)
           THEN [quad EXCEPT !.queue = Tail(@), !.leaves = @ \cup {leaf},
                             !.iterations = @ + 1]
           ELSE IF /\ 30 * size > defaultMinTileSize30(canvasWidth, canvasHeight)
                   /\ shouldSplitCapped(quad.imageData, node, canvasWidth, canvasHeight)
           THEN [quad EXCEPT !.queue = Tail(@) \o subdivide(node),
                             !.iterations = @ + 1]
           ELSE [quad EXCEPT !.queue = Tail(@), !.leaves = @ \cup {leaf},
                             !.iterations = @ + 1]
  /\ UNCHANGED << passVars, matchCall, shade, highRes, sideVars >>

\* the while loop ends, on an empty queue or on the iteration cap:
\* buildQuadtree returns the root and collectLeaves gathers every node
\* without children, the nodes still queued among them
CappedCollectLeaves ==
  /\ quad.pc = "capped"
  /\ quad.queue = << >> \/ quad.iterations >= MaxIterations
  /\ quad' = [quad EXCEPT !.pc = "cappedCollected",
                          !.leaves = @ \cup Range(quad.queue),
                          !.queue = << >>]
  /\ UNCHANGED << passVars, matchCall, shade, highRes, sideVars >>

\* the leaves createPlacementAreas keeps: with a colour, inside the raster
placementLeaves(leaves, imageAreaWidth, imageAreaHeight) ==
  { node \in leaves :
      /\ node.avgColor # InvalidColor
      /\ node.x >= 0 /\ node.y >= 0
      /\ node.x < imageAreaWidth /\ node.y < imageAreaHeight }

CappedNext == CappedBuildStep \/ CappedCollectLeaves

\* either buildQuadtree, on its rasters
BuildsInit == QuadInit \/ CappedInit
BuildsNext == QuadNext \/ CappedNext

\* ------------------------------------------------------------------------
\* The opacity of one region, as the region loops of the two builds set it
\* ------------------------------------------------------------------------
\* masks have the size of the container: MaskSide x MaskSide pixels
MaskSides == { 10 * tens : tens \in 1..MaxMaskTens }
MaskPatterns == {"opaque", "clear", "left", "corner", "faint"}

ShadeInit ==
  /\ PassIdle
  /\ strategy \in {"quadtree", "hexagon"}
  /\ photoColors = [i \in PoolIndices |-> Black]
  /\ matchCall = NoCall
  /\ quad = NoQuad
  /\ highRes = NoExport
  /\ SideIdle
  /\ \E side \in MaskSides, inset \in 0..MaxInset, averageTileSize \in 1..MaxTileSize :
     \E mask \in {NoMaskData}
                       \cup { [width |-> side, height |-> side, pattern |-> pattern] :
                              pattern \in MaskPatterns },
        centerX \in 0..side, centerY \in 0..side :
       shade = [pc |-> "region",
                mainImg |-> [x |-> 0, y |-> inset, width |-> side, height |-> side - 2 * inset],
                maskData |-> mask,
                centerX |-> centerX, centerY |-> centerY,
                averageTileSize |-> averageTileSize,
                opacity |-> NaN]

\* the region is emitted with the opacity its build computes
ShadeRegion ==
  /\ shade.pc = "region"
  /\ shade' = [shade EXCEPT
       !.pc = "emitted",
       !.opacity =
          IF strategy = "hexagon"
          THEN hexagonOpacity(shade.centerX, shade.centerY, shade.mainImg,
                              shade.maskData, shade.averageTileSize)
          ELSE quadtreeOpacity(shade.centerX, shade.centerY, shade.mainImg,
                               shade.maskData, shade.averageTileSize)]
  /\ UNCHANGED << passVars, matchCall, quad, highRes, sideVars >>

ShadeNext == ShadeRegion

\* ------------------------------------------------------------------------
\* High-resolution export (downloadHighRes)
\* ------------------------------------------------------------------------
\* const scaleFactor = 4
scaleFactor == 4

\* cos and sin, in 1/SCALE, of the angles -30, 30, 90, 150, 210, 270 degrees
HexDirections ==
  << << 866, 0 - 500 >>, << 866, 500 >>, << 0, 1000 >>,
     << 0 - 866, 500 >>, << 0 - 866, 0 - 500 >>, << 0, 0 - 1000 >> >>

\* the six vertices of the hexagon of side `side` around the centre, in 1/SCALE
getHexagonVertices(centerX, centerY, side) ==
  [i \in 1..6 |-> [x |-> centerX * SCALE + side * HexDirections[i][1],
                   y |-> centerY * SCALE + side * HexDirections[i][2]]]

MinOf(S) == CHOOSE x \in S : \A y \in S : x <= y
MaxOf(S) == CHOOSE x \in S : \A y \in S : x >= y

\* a region of the hexagon builds: bounding box of the vertices, the vertices
\* themselves, tile and opacity (geometry in 1/SCALE)
hexagonTile(centerX, centerY, a, bestIndex, opacity) ==
  LET vertices == getHexagonVertices(centerX, centerY, a)
      xs == { vertices[i].x : i \in 1..6 }
      ys == { vertices[i].y : i \in 1..6 }
  IN  [x |-> MinOf(xs), y |-> MinOf(ys),
       width |-> MaxOf(xs) - MinOf(xs), height |-> MaxOf(ys) - MinOf(ys),
       vertices |-> vertices, imageIndex |-> bestIndex, opacity |-> opacity]

\* a region of the quadtree build: a rectangle around its centre, no vertices
rectangleTile(centerX, centerY, halfSize, bestIndex, opacity) ==
  [x |-> (centerX - halfSize) * SCALE, y |-> (centerY - halfSize) * SCALE,
   width |-> 2 * halfSize * SCALE, height |-> 2 * halfSize * SCALE,
   vertices |-> << >>, imageIndex |-> bestIndex, opacity |-> opacity]

\* the opacity the build stores for a region with this centre
storedOpacity(build, centerX, centerY, mainImg, mask, averageTileSize) ==
  CASE build = "quadtree" -> quadtreeOpacity(centerX, centerY, mainImg, mask, averageTileSize)
    [] build = "hexagon" -> hexagonOpacity(centerX, centerY, mainImg, mask, averageTileSize)
    [] OTHER -> MAX_OPACITY

\* tile.opacity || MIN_OPACITY: a zero opacity is falsy
opacityOrMin(opacity) == IF opacity = 0 THEN MIN_OPACITY ELSE opacity

\* drawTile that ignores the scale factor
drawTileUnscaled(build, region, tile) ==
  [kind |-> "tile", region |-> region, imageIndex |-> tile.imageIndex,
   x |-> tile.x, y |-> tile.y, width |-> tile.width, height |-> tile.height,
   globalAlpha |-> opacityOrMin(tile.opacity), clip |-> << >>]

\* what the export draws for a region: tile image, scaled box, alpha and clip
\* path. The builds that keep a per-region opacity draw the box with alpha
\* tile.opacity || MIN_OPACITY and no clip; the hexagon build with opaque
\* tiles draws with alpha 1.0 and clips to the scaled vertices
drawTile(build, region, tile) ==
  IF build = "hexagonOverlay"
  THEN [kind |-> "tile", region |-> region, imageIndex |-> tile.imageIndex,
        x |-> tile.x * scaleFactor, y |-> tile.y * scaleFactor,
        width |-> tile.width * scaleFactor, height |-> tile.height * scaleFactor,
        globalAlpha |-> MAX_OPACITY,
        clip |-> IF Len(tile.vertices) = 6
                 THEN [i \in 1..6 |->
                         [x |-> tile.x * scaleFactor + (tile.vertices[i].x - tile.x) * scaleFactor,
                          y |-> tile.y * scaleFactor + (tile.vertices[i].y - tile.y) * scaleFactor]]
                 ELSE << >>]
  ELSE [kind |-> "tile", region |-> region, imageIndex |-> tile.imageIndex,
        x |-> tile.x * scaleFactor, y |-> tile.y * scaleFactor,
        width |-> tile.width * scaleFactor, height |-> tile.height * scaleFactor,
        globalAlpha |-> opacityOrMin(tile.opacity), clip |-> << >>]

\* the hero image drawn at its scaled placement
drawHero ==
  [kind |-> "hero", region |-> 0, imageIndex |-> mainImageUrl,
   x |-> mainImageSize.x * SCALE * scaleFactor, y |-> mainImageSize.y * SCALE * scaleFactor,
   width |-> mainImageSize.width * SCALE * scaleFactor,
   height |-> mainImageSize.height * SCALE * scaleFactor,
   globalAlpha |-> MAX_OPACITY, clip |-> << >>]

\* the draws of the loaded tiles, in the order of the Region list
RECURSIVE drawLoaded(_, _, _)
drawLoaded(build, loaded, region) ==
  IF region > Len(tiles) THEN << >>
  ELSE (IF region \in loaded THEN << drawTile(build, region, tiles[region]) >> ELSE << >>)
       \o drawLoaded(build, loaded, region + 1)

\* centres of the regions of the Placed lists that are exported, on a hero
\* of 10 x 10 pixels: on the edge, inside the border gradient, in the middle
ExportCenters == {0, 1, 5}
ExportHero == [x |-> 0, y |-> 0, width |-> 10, height |-> 10]
ExportMasks == { NoMaskData,
                 [width |-> 10, height |-> 10, pattern |-> "clear"],
                 [width |-> 10, height |-> 10, pattern |-> "left"] }

\* the hero of the displayed mosaic
ExportHeroIndex == PoolSize - 1

\* the tile of region k when the allow-list is `files`: one of the
\* allow-listed photos other than the hero, or the fallback 0 of
\* findBestMatch when there is none
exportTileIndex(files, k) ==
  LET others == Ascending(files \ {ExportHeroIndex})
  IN  IF others = << >> THEN 0
      ELSE others[((k - 1) % Len(others)) + 1]

\* a render that keeps the regions without a tile URL
tilesToRenderAll ==
  [index \in DOMAIN tiles |->
     [tile |-> tiles[index], index |-> index, tileUrl |-> tiles[index].imageIndex]]

\* the regions put on screen: those whose imageIndex has a URL in
\* tileImageUrls, with that URL
tilesToRender ==
  LET all == [index \in DOMAIN tiles |->
                [tile |-> tiles[index], index |-> index, tileUrl |-> tiles[index].imageIndex]]
      hasUrl(item) == item.tileUrl \in tileImageUrls
  IN  SelectSeq(all, hasUrl)

\* a displayed mosaic (Placed state) of one of the three builds
ExportInit ==
  /\ strategy \in {"quadtree", "hexagon", "hexagonOverlay"}
  /\ photoColors = [i \in PoolIndices |-> Black]
  /\ pendingChecks = {}
  /\ tilesLoaded = TRUE
  /\ currentMainIndex = ExportHeroIndex
  /\ containerSize = ExportHero.width
  /\ \E mask \in ExportMasks, centers \in [1..MaxTiles -> ExportCenters],
        files \in (SUBSET PoolIndices) \ {{}} :
       /\ tileFiles = files
       /\ availableIndices = Ascending(files)
       /\ availableTileIndices = Ascending(files)
       /\ maskData = mask
       /\ tiles = [k \in 1..MaxTiles |->
            LET opacity == storedOpacity(strategy, centers[k], 5, ExportHero, mask, 2)
                bestIndex == exportTileIndex(files, k)
            IN  IF strategy = "quadtree"
                THEN rectangleTile(centers[k], 5, 1, bestIndex, opacity)
                ELSE hexagonTile(centers[k], 5, 1, bestIndex, opacity)]
  /\ tilesPass = 0
  /\ mainImageUrl = ExportHeroIndex
  /\ mainImageSize = ExportHero
  /\ edgeColors = ExportHeroIndex
  /\ passes = << >>
  /\ eventsLeft = 0
  /\ matchCall = NoCall
  /\ quad = NoQuad
  /\ shade = NoShade
  /\ highRes = NoExport
  /\ tileImageUrls = {}
  /\ twin = NoTwin
  /\ hexGrid = NoGrid
  /\ maskProbe = NoProbe
  /\ imageCache = NoCache

\* the effect that preloads the tiles of the displayed regions: every
\* allow-listed imageIndex of the list whose tile loads gets a URL, the
\* others get none (the file is missing or the request failed)
loadTiles ==
  /\ Len(tiles) > 0
  /\ tilesLoaded
  /\ Len(availableTileIndices) > 0
  /\ \E newUrls \in SUBSET ({ tiles[k].imageIndex : k \in DOMAIN tiles }
                              \cap Range(availableTileIndices) \cap tileFiles) :
       tileImageUrls' = newUrls
  /\ UNCHANGED << passVars, matchCall, quad, shade, highRes, tileFiles, twin, hexGrid, maskProbe, imageCache >>

\* downloadHighRes up to its first await (the hero image)
StartExport ==
  /\ Len(tiles) > 0
  /\ mainImageUrl # NaN
  /\ ~ highRes.isGeneratingHighRes
  /\ highRes' = [NoExport EXCEPT !.pc = "awaitHero", !.isGeneratingHighRes = TRUE]
  /\ UNCHANGED << passVars, matchCall, quad, shade, sideVars >>

\* the hero image fails to load: the catch block ends the export
ExportHeroFailed ==
  /\ highRes.pc = "awaitHero"
  /\ highRes' = [highRes EXCEPT !.pc = "failed", !.isGeneratingHighRes = FALSE]
  /\ UNCHANGED << passVars, matchCall, quad, shade, sideVars >>

\* the hero image loads: the canvas is created, the builds with per-region
\* opacity draw the hero first, and one image load is started per region
ExportHeroLoaded ==
  /\ highRes.pc = "awaitHero"
  /\ highRes' = [highRes EXCEPT
       !.pc = "awaitTiles",
       !.pending = DOMAIN tiles,
       !.canvas = IF strategy = "hexagonOverlay" THEN << >> ELSE << drawHero >>]
  /\ UNCHANGED << passVars, matchCall, quad, shade, sideVars >>

\* tileImg.onload of a region: drawn at once, or kept for the drawing loop.
\* The image is requested from /tiles/ (from /photos/, where every catalog
\* photo lies, in the build with opaque hexagons)
TileImageLoaded(region) ==
  /\ highRes.pc = "awaitTiles"
  /\ region \in highRes.pending
  /\ strategy = "hexagonOverlay" \/ tiles[region].imageIndex \in tileFiles
  /\ highRes' = [highRes EXCEPT
       !.pending = @ \ {region},
       !.loaded = @ \cup {region},
       !.canvas = IF strategy = "hexagonOverlay" THEN @
                  ELSE Append(@, drawTile(strategy, region, tiles[region]))]
  /\ UNCHANGED << passVars, matchCall, quad, shade, sideVars >>

\* tileImg.onerror of a region: the region is skipped
TileImageFailed(region) ==
  /\ highRes.pc = "awaitTiles"
  /\ region \in highRes.pending
  /\ highRes' = [highRes EXCEPT !.pending = @ \ {region}, !.skipped = @ \cup {region}]
  /\ UNCHANGED << passVars, matchCall, quad, shade, sideVars >>

\* tileImg.onload of a region throws before it draws (no 2d context for the
\* filter canvas, say): the handler ends without resolve(), outside every
\* try block, and the promise of the region stays pending. Only the builds
\* that draw inside onload have this path
TileDrawThrows(region) ==
  /\ highRes.pc = "awaitTiles"
  /\ region \in highRes.pending
  /\ strategy # "hexagonOverlay"
  /\ tiles[region].imageIndex \in tileFiles
  /\ highRes' = [highRes EXCEPT !.pending = @ \ {region}, !.thrown = @ \cup {region}]
  /\ UNCHANGED << passVars, matchCall, quad, shade, sideVars >>

\* after Promise.all: the hexagon build with opaque tiles draws the loaded
\* tiles and the hero over them; toBlob yields a blob that is saved, or null
FinishExport ==
  /\ highRes.pc = "awaitTiles"
  /\ highRes.pending = {}
  /\ highRes.thrown = {}
  /\ \E blob \in BOOLEAN :
       highRes' = [highRes EXCEPT
         !.pc = IF blob THEN "exported" ELSE "failed",
         !.isGeneratingHighRes = FALSE,
         !.canvas = IF strategy = "hexagonOverlay"
                    THEN drawLoaded(strategy, highRes.loaded, 1) \o << drawHero >>
                    ELSE @]
  /\ UNCHANGED << passVars, matchCall, quad, shade, sideVars >>

ExportNext ==
  \/ loadTiles
  \/ StartExport
  \/ ExportHeroFailed
  \/ ExportHeroLoaded
  \/ \E region \in DOMAIN tiles : TileImageLoaded(region)
  \/ \E region \in DOMAIN tiles : TileImageFailed(region)
  \/ \E region \in DOMAIN tiles : TileDrawThrows(region)
  \/ FinishExport

\* the steps of a running export: the events of its image loads and the
\* code after its awaits
ExportStep ==
  \/ ExportHeroFailed
  \/ ExportHeroLoaded
  \/ \E region \in DOMAIN tiles : TileImageLoaded(region)
  \/ \E region \in DOMAIN tiles : TileImageFailed(region)
  \/ \E region \in DOMAIN tiles : TileDrawThrows(region)
  \/ FinishExport

\* ------------------------------------------------------------------------
\* Two region loops on the same inputs
\* ------------------------------------------------------------------------
\* the colours sampled at the edges of the hero (edgeColorSamples)
edgeColorSamples == {Black, Red}

\* the regions a partitioner hands to the region loop: on the hero, with the
\* colour sampled there, inside the border gradient or in the middle; or off
\* the hero (background cell, hexagon outside the hero)
TwinRegions ==
  { [onMain |-> TRUE, color |-> color, centerX |-> centerX] :
      color \in TargetColors, centerX \in {1, 5} }
    \cup { [onMain |-> FALSE, color |-> NaN, centerX |-> 12] }

\* the quadtree build resolves the leaves on the hero first and the cells of
\* the background fill after them; the hexagon build resolves the centres in
\* grid order, on and off the hero mixed
inLoopOrder(build, regions) ==
  build = "quadtree" =>
    \A i \in DOMAIN regions, j \in DOMAIN regions :
      (i < j /\ regions[j].onMain) => regions[i].onMain

TwinInit ==
  /\ PassIdle
  /\ strategy \in {"quadtree", "hexagon"}
  /\ photoColors \in Pools
  /\ matchCall = NoCall
  /\ quad = NoQuad
  /\ shade = NoShade
  /\ highRes = NoExport
  /\ tileFiles = {}
  /\ tileImageUrls = {}
  /\ hexGrid = NoGrid
  /\ maskProbe = NoProbe
  /\ imageCache = NoCache
  /\ \E regions \in [1..MaxTwin -> TwinRegions], mask \in {NoMaskData, [width |-> 10, height |-> 10, pattern |-> "left"]} :
       /\ inLoopOrder(strategy, regions)
       /\ twin = [pc |-> "loops", hero |-> 0, avail |-> Ascending(PoolIndices),
                  mask |-> mask, regions |-> regions,
                  runs |-> [run \in 1..2 |-> [usageCount |-> zeroUsage, newTiles |-> << >>]]]

\* an iteration that takes a random colour for every region
twinRegionNoisy(run, draw) ==
  LET k == Len(twin.runs[run].newTiles) + 1
      region == twin.regions[k]
      tileColor == draw
      bestIndex ==
        IF strategy = "hexagon"
        THEN findBestMatchCapped(tileColor, photoColors, twin.runs[run].usageCount,
                                 {twin.hero}, DEFAULT_DIVERSITY_BONUS, twin.avail, MAX_TILE_USAGE)
        ELSE findBestMatch(tileColor, photoColors, twin.runs[run].usageCount,
                           {twin.hero}, DEFAULT_DIVERSITY_BONUS, twin.avail)
  IN  [usageCount |-> increment(twin.runs[run].usageCount, bestIndex),
       newTiles |-> Append(twin.runs[run].newTiles,
                      [imageIndex |-> bestIndex, avgColor |-> tileColor,
                       opacity |-> storedOpacity(strategy, region.centerX, 5, ExportHero, twin.mask, 2)])]

\* one iteration of the region loop of a run: the colour of the region is the
\* one sampled on the hero, or the random draw from edgeColorSamples off the
\* hero; match, count the use, emit the region with its opacity
twinRegion(run, draw) ==
  LET k == Len(twin.runs[run].newTiles) + 1
      region == twin.regions[k]
      tileColor == IF region.onMain THEN region.color ELSE draw
      bestIndex ==
        IF strategy = "hexagon"
        THEN findBestMatchCapped(tileColor, photoColors, twin.runs[run].usageCount,
                                 {twin.hero}, DEFAULT_DIVERSITY_BONUS, twin.avail, MAX_TILE_USAGE)
        ELSE findBestMatch(tileColor, photoColors, twin.runs[run].usageCount,
                           {twin.hero}, DEFAULT_DIVERSITY_BONUS, twin.avail)
  IN  [usageCount |-> increment(twin.runs[run].usageCount, bestIndex),
       newTiles |-> Append(twin.runs[run].newTiles,
                      [imageIndex |-> bestIndex, avgColor |-> tileColor,
                       opacity |-> storedOpacity(strategy, region.centerX, 5, ExportHero, twin.mask, 2)])]

\* the second loop runs after the first, on the same inputs
TwinResolve(run) ==
  /\ twin.pc = "loops"
  /\ Len(twin.runs[run].newTiles) < Len(twin.regions)
  /\ run = 2 => Len(twin.runs[1].newTiles) = Len(twin.regions)
  /\ \E draw \in edgeColorSamples :
       twin' = [twin EXCEPT !.runs[run] = twinRegion(run, draw)]
  /\ UNCHANGED << passVars, matchCall, quad, shade, highRes, tileFiles, tileImageUrls, hexGrid, maskProbe, imageCache >>

TwinNext == \E run \in 1..2 : TwinResolve(run)

\* ------------------------------------------------------------------------
\* Two region loops on allow-lists that differ in their order only
\* ------------------------------------------------------------------------
\* the regions of the two loops: their colour and, in the quadtree build,
\* whether the leaf lies on the edge of the raster
OrderRegions ==
  { [color |-> color, isEdgeTile |-> isEdgeTile] :
    color \in {Black, Green}, isEdgeTile \in BOOLEAN }

\* the existence checks of loadImages add an index to the allow-list when
\* they complete: the same indices, in the order of completion. A pass needs
\* a non-empty allow-list, and the hexagon build uses at most as many
\* centres as the allow-list has entries. The checks of the first pass
\* complete in the order of the catalog
OrderInit ==
  /\ PassIdle
  /\ strategy \in {"quadtree", "hexagon"}
  /\ photoColors \in Pools
  /\ matchCall = NoCall
  /\ quad = NoQuad
  /\ shade = NoShade
  /\ highRes = NoExport
  /\ tileFiles = {}
  /\ tileImageUrls = {}
  /\ hexGrid = NoGrid
  /\ maskProbe = NoProbe
  /\ imageCache = NoCache
  /\ \E first \in AllowLists, second \in AllowLists, hero \in PoolIndices,
        total \in 1..MaxTwin :
       \E regions \in [1..total -> OrderRegions] :
         /\ first = Ascending(Range(second))
         /\ strategy = "hexagon" => \A k \in 1..total : ~ regions[k].isEdgeTile
         /\ Len(first) > 0
         /\ strategy = "hexagon" => total <= Len(first)
         /\ twin = [pc |-> "orders", hero |-> hero, regions |-> regions,
                    runs |-> [run \in 1..2 |->
                               [avail |-> IF run = 1 THEN first ELSE second,
                                usageCount |-> zeroUsage, newTiles |-> << >>]]]

\* one iteration of the region loop of a run, on the allow-list of the run
orderedRegion(run) ==
  LET k == Len(twin.runs[run].newTiles) + 1
      tileColor == twin.regions[k].color
      edgeDiversityBonus ==
        IF twin.regions[k].isEdgeTile THEN EDGE_DIVERSITY_BONUS ELSE DEFAULT_DIVERSITY_BONUS
      bestIndex ==
        IF strategy = "hexagon"
        THEN findBestMatchCapped(tileColor, photoColors, twin.runs[run].usageCount,
                                 {twin.hero}, DEFAULT_DIVERSITY_BONUS,
                                 twin.runs[run].avail, MAX_TILE_USAGE)
        ELSE findBestMatch(tileColor, photoColors, twin.runs[run].usageCount,
                           {twin.hero}, edgeDiversityBonus, twin.runs[run].avail)
  IN  [avail |-> twin.runs[run].avail,
       usageCount |-> increment(twin.runs[run].usageCount, bestIndex),
       newTiles |-> Append(twin.runs[run].newTiles,
                           [imageIndex |-> bestIndex, avgColor |-> tileColor])]

\* the two loops, each on its own ledger, resolve their next region
OrderResolve ==
  /\ twin.pc = "orders"
  /\ Len(twin.runs[1].newTiles) < Len(twin.regions)
  /\ twin' = [twin EXCEPT !.runs = [run \in 1..2 |-> orderedRegion(run)]]
  /\ UNCHANGED << passVars, matchCall, quad, shade, highRes, tileFiles, tileImageUrls, hexGrid, maskProbe, imageCache >>

OrderNext == OrderResolve

\* ------------------------------------------------------------------------
\* The side of the hexagons and the grid of their centres
\* ------------------------------------------------------------------------
\* lengths of this section are in 1/CENTI of a pixel, areas in 1/CENTI of a
\* square pixel
CENTI == 100

\* minSide of the hexagon build, in pixels
minSide == 10

\* Math.sqrt(2 * hexArea / (3 * Math.sqrt(3))): 2 / (3 * sqrt(3)) = 0.3849
calculateHexagonSideFromArea(hexArea) == ISqrt((3849 * hexArea) \div CENTI)

\* maxSide = min(width, height) / 4
maxSideOf(width, height) == (Min(width, height) * CENTI) \div 4

\* a side clamped the other way round: first raised to minSide, then cut to
\* maxSide
hexagonSideCutLast(width, height, totalTiles) ==
  LET a == calculateHexagonSideFromArea((width * height * CENTI) \div totalTiles)
      raised == IF a < minSide * CENTI THEN minSide * CENTI ELSE a
  IN  IF raised > maxSideOf(width, height) THEN maxSideOf(width, height) ELSE raised

\* the side a of a pass: the side of a hexagon of area S / N, cut to
\* maxSide, then raised to minSide
hexagonSide(width, height, totalTiles) ==
  LET a == calculateHexagonSideFromArea((width * height * CENTI) \div totalTiles)
      cut == IF a > maxSideOf(width, height) THEN maxSideOf(width, height) ELSE a
  IN  IF cut < minSide * CENTI THEN minSide * CENTI ELSE cut

\* HEXAGON_HORIZONTAL_SPACING_MULTIPLIER * side, sqrt(3) + 0.05 = 1.78205
horizontalSpacing(side) == (side * 178205) \div 100000

\* HEXAGON_VERTICAL_SPACING_MULTIPLIER * side
verticalSpacing(side) == (side * 155) \div 100

\* the inner while loop of generateHexagonGrid: the centres of one row
RECURSIVE gridRow(_, _, _, _)
gridRow(width, side, x, y) ==
  IF x <= width * CENTI - side + CENTI \div 2
  THEN << [x |-> x, y |-> y] >> \o gridRow(width, side, x + horizontalSpacing(side), y)
  ELSE << >>

\* the outer while loop of generateHexagonGrid, from the row `row` at y
RECURSIVE gridRows(_, _, _, _, _)
gridRows(width, height, side, row, y) ==
  LET nextY == y + verticalSpacing(side)
      offsetX == IF row % 2 = 1 THEN horizontalSpacing(side) \div 2 ELSE 0
  IN  IF nextY - side >= height * CENTI THEN << >>
      ELSE gridRow(width, side, side + offsetX, y)
             \o gridRows(width, height, side, row + 1, nextY)

\* a grid that starts at the corner of the area, without the margin of one
\* circumscribed radius
generateHexagonGridNoMargin(width, height, side) ==
  IF width <= 0 \/ height <= 0 \/ side <= 0 THEN << >>
  ELSE gridRows(width, height, side, 0, 0)

\* generateHexagonGrid(width, height, side): the centres, row by row
generateHexagonGrid(width, height, side) ==
  IF width <= 0 \/ height <= 0 \/ side <= 0 THEN << >>
  ELSE gridRows(width, height, side, 0, side)

\* container sides of the grid computations, in pixels: too small for one
\* row, below and at 4 * minSide, and above it
GridSides == {15, 30, 40, 60}

GridInit ==
  /\ PassIdle
  /\ strategy = "hexagon"
  /\ photoColors = [i \in PoolIndices |-> Black]
  /\ matchCall = NoCall
  /\ quad = NoQuad
  /\ shade = NoShade
  /\ highRes = NoExport
  /\ tileFiles = {}
  /\ tileImageUrls = {}
  /\ twin = NoTwin
  /\ maskProbe = NoProbe
  /\ imageCache = NoCache
  /\ \E width \in GridSides, height \in GridSides, totalTiles \in 1..MaxGridTiles :
       hexGrid = [pc |-> "start", width |-> width, height |-> height,
                  totalTiles |-> totalTiles, a |-> 0,
                  hexagonCenters |-> << >>, centersToUse |-> << >>]

\* the pass computes the side a from the container and the number of tiles
CalculateSide ==
  /\ hexGrid.pc = "start"
  /\ hexGrid' = [hexGrid EXCEPT
       !.pc = "side",
       !.a = hexagonSide(hexGrid.width, hexGrid.height, hexGrid.totalTiles)]
  /\ UNCHANGED << passVars, matchCall, quad, shade, highRes, tileFiles, tileImageUrls, twin, maskProbe, imageCache >>

\* the pass generates the grid for the whole container and returns when it
\* is empty
GenerateGrid ==
  /\ hexGrid.pc = "side"
  /\ LET hexagonCenters == generateHexagonGrid(hexGrid.width, hexGrid.height, hexGrid.a)
     IN  hexGrid' = [hexGrid EXCEPT
           !.pc = IF Len(hexagonCenters) = 0 THEN "aborted" ELSE "grid",
           !.hexagonCenters = hexagonCenters]
  /\ UNCHANGED << passVars, matchCall, quad, shade, highRes, tileFiles, tileImageUrls, twin, maskProbe, imageCache >>

\* centersToUse = hexagonCenters.slice(0, min(totalTiles, length))
SliceCenters ==
  /\ hexGrid.pc = "grid"
  /\ hexGrid' = [hexGrid EXCEPT
       !.pc = "centers",
       !.centersToUse = SubSeq(hexGrid.hexagonCenters, 1,
                               Min(hexGrid.totalTiles, Len(hexGrid.hexagonCenters)))]
  /\ UNCHANGED << passVars, matchCall, quad, shade, highRes, tileFiles, tileImageUrls, twin, maskProbe, imageCache >>

GridNext == CalculateSide \/ GenerateGrid \/ SliceCenters

\* ------------------------------------------------------------------------
\* One call of isTransparentInMask
\* ------------------------------------------------------------------------
\* the masks of the calls: none, and rasters of every alpha pattern
ProbeMasks ==
  { NoMaskData } \cup
  { [width |-> w, height |-> h, pattern |-> pattern] :
      w \in 1..MaxProbe, h \in 1..MaxProbe,
      pattern \in {"opaque", "clear", "left", "corner", "faint"} }

\* the coordinates of the calls, in 1/SCALE: half-pixel steps from one pixel
\* before the raster to one pixel behind it
ProbeCoordinates == { (k * SCALE) \div 2 : k \in (-2)..(2 * MaxProbe + 2) }

ProbeInit ==
  /\ PassIdle
  /\ strategy = "quadtree"
  /\ photoColors = [i \in PoolIndices |-> Black]
  /\ matchCall = NoCall
  /\ quad = NoQuad
  /\ shade = NoShade
  /\ highRes = NoExport
  /\ tileFiles = {}
  /\ tileImageUrls = {}
  /\ twin = NoTwin
  /\ hexGrid = NoGrid
  /\ imageCache = NoCache
  /\ \E mask \in ProbeMasks, x \in ProbeCoordinates, y \in ProbeCoordinates :
       maskProbe = [pc |-> "called", maskData |-> mask, x |-> x, y |-> y,
                    result |-> FALSE]

\* the call returns
ProbeMask ==
  /\ maskProbe.pc = "called"
  /\ maskProbe' = [maskProbe EXCEPT
       !.pc = "returned",
       !.result = isTransparentInMaskAt(maskProbe.x, maskProbe.y, maskProbe.maskData)]
  /\ UNCHANGED << passVars, matchCall, quad, shade, highRes, tileFiles, tileImageUrls, twin, hexGrid, imageCache >>

ProbeNext == ProbeMask

\* ------------------------------------------------------------------------
\* The background fill of the quadtree build (generateMosaic)
\* ------------------------------------------------------------------------
\* lengths are in 1/CENTI pixel. The hero fitted into the container
\* ("contain"): an image wider than the container takes its width, any other
\* image its height, and is centred on the other axis
fitContain(container, img) ==
  IF img.width * container.height > container.width * img.height
  THEN LET mainImgHeight == (container.width * img.height) \div img.width
       IN  [x |-> 0, y |-> (container.height - mainImgHeight) \div 2,
            width |-> container.width, height |-> mainImgHeight]
  ELSE LET mainImgWidth == (container.height * img.width) \div img.height
       IN  [x |-> (container.width - mainImgWidth) \div 2, y |-> 0,
            width |-> mainImgWidth, height |-> container.height]

\* the areas of the container the hero leaves empty: above, below, left and
\* right of the hero, in this order
emptyAreasOf(container, mainImg) ==
  LET top    == [x |-> 0, y |-> 0, width |-> container.width, height |-> mainImg.y]
      bottom == [x |-> 0, y |-> mainImg.y + mainImg.height, width |-> container.width,
                 height |-> container.height - (mainImg.y + mainImg.height)]
      left   == [x |-> 0, y |-> mainImg.y, width |-> mainImg.x, height |-> mainImg.height]
      right  == [x |-> mainImg.x + mainImg.width, y |-> mainImg.y,
                 width |-> container.width - (mainImg.x + mainImg.width),
                 height |-> mainImg.height]
  IN  (IF mainImg.y > 0 THEN << top >> ELSE << >>)
      \o (IF mainImg.y + mainImg.height < container.height THEN << bottom >> ELSE << >>)
      \o (IF mainImg.x > 0 THEN << left >> ELSE << >>)
      \o (IF mainImg.x + mainImg.width < container.width THEN << right >> ELSE << >>)

\* Math.ceil(length / baseTileSize)
tilesAlong(length, baseTileSize) == (length + baseTileSize - 1) \div baseTileSize

\* a cell narrower or lower than a fifth of the base size is skipped: the
\* cells of a row are area.width / tilesX wide, the cells of a column
\* area.height / tilesY high
tooSmall(area, tilesX, tilesY, baseTileSize) ==
  \/ 5 * area.width < baseTileSize * tilesX
  \/ 5 * area.height < baseTileSize * tilesY

\* the cells pushed for one empty area. A cell is kept with its column tx
\* and row ty of the tilesX x tilesY grid of its area: it spans
\* [area.x + tx * area.width / tilesX, area.x + (tx + 1) * area.width / tilesX)
\* and the like in y (the last cell of a row or column ends on the edge of
\* the area). The colour and the tile of a cell play no part in its place
fillArea(area, baseTileSize) ==
  LET tilesX == tilesAlong(area.width, baseTileSize)
      tilesY == tilesAlong(area.height, baseTileSize)
  IN  IF tooSmall(area, tilesX, tilesY, baseTileSize) THEN {}
      ELSE { [area |-> area, tx |-> tx, ty |-> ty, tilesX |-> tilesX, tilesY |-> tilesY] :
             tx \in 0..(tilesX - 1), ty \in 0..(tilesY - 1) }

\* containers and hero images, in pixels
FillContainers == { [width |-> 12, height |-> 8], [width |-> 8, height |-> 12] }
FillImages ==
  { [width |-> 3, height |-> 2], [width |-> 2, height |-> 3], [width |-> 1, height |-> 1],
    [width |-> 2, height |-> 1], [width |-> 1, height |-> 2], [width |-> 12, height |-> 7],
    [width |-> 7, height |-> 12], [width |-> 5, height |-> 3], [width |-> 3, height |-> 5] }
\* mean size of the tiles on the hero, in 1/CENTI pixel
FillTileSizes == {150, 250, 400, 1000}

\* the pass has placed the tiles on the hero and listed the empty areas
FillInit ==
  /\ PassIdle
  /\ strategy = "quadtree"
  /\ photoColors = [i \in PoolIndices |-> Black]
  /\ matchCall = NoCall
  /\ shade = NoShade
  /\ highRes = NoExport
  /\ SideIdle
  /\ \E container \in FillContainers, img \in FillImages, baseTileSize \in FillTileSizes :
       LET size == [width |-> container.width * CENTI,
                    height |-> container.height * CENTI]
           mainImg == fitContain(size, img)
       IN  quad = [pc |-> "fill", containerSize |-> size, mainImg |-> mainImg,
                   baseTileSize |-> baseTileSize,
                   emptyAreas |-> emptyAreasOf(size, mainImg),
                   filled |-> 0, backgroundTiles |-> {}]

\* one iteration of emptyAreas.forEach
FillNextArea ==
  /\ quad.pc = "fill"
  /\ quad.filled < Len(quad.emptyAreas)
  /\ quad' = [quad EXCEPT
       !.filled = @ + 1,
       !.backgroundTiles = @ \cup fillArea(quad.emptyAreas[quad.filled + 1], quad.baseTileSize)]
  /\ UNCHANGED << passVars, matchCall, shade, highRes, sideVars >>

FillNext == FillNextArea

\* ------------------------------------------------------------------------
\* ImageCache (imageCache.js), for one url
\* ------------------------------------------------------------------------
\* imageCache.memoryCache: the Map holds an object URL for the url;
\* imageCache.store: the IndexedDB store holds a blob for the url;
\* imageCache.db: IndexedDB can be opened; imageCache.server: the file
\* exists on the server; imageCache.initDone: initPromise has resolved;
\* imageCache.waiters: the calls that await init(), in the order they began
\* to wait, which is the order they go on in; imageCache.transactions: the IndexedDB requests in
\* the order they were made, which is the order they are served in;
\* imageCache.calls: the calls of loadImage and get.
\* imageCache.cleared records that a loadImage has resolved to null on a
\* failed existence check and that no set() has stored the url since
CallIds == 1..MaxCalls
NoCacheCall == [op |-> "none", pc |-> "none", phase |-> "none", result |-> "pending",
                sinceCleared |-> FALSE]

CacheInit ==
  /\ PassIdle
  /\ strategy = "quadtree"
  /\ photoColors = [i \in PoolIndices |-> Black]
  /\ matchCall = NoCall
  /\ quad = NoQuad
  /\ shade = NoShade
  /\ highRes = NoExport
  /\ tileFiles = {}
  /\ tileImageUrls = {}
  /\ twin = NoTwin
  /\ hexGrid = NoGrid
  /\ maskProbe = NoProbe
  /\ \E db \in BOOLEAN, store \in BOOLEAN, server \in BOOLEAN :
       /\ store => db
       /\ imageCache = [pc |-> "page", memoryCache |-> FALSE, store |-> store, db |-> db,
                        server |-> server, initDone |-> FALSE, waiters |-> << >>,
                        transactions |-> << >>,
                        calls |-> [c \in CallIds |-> NoCacheCall],
                        cleared |-> FALSE, overlapped |-> FALSE]

CacheUnchanged == UNCHANGED << passVars, matchCall, quad, shade, highRes, tileFiles, tileImageUrls, twin, hexGrid, maskProbe >>

\* a call that has not resolved
inFlight(call) == call.op # "none" /\ call.result = "pending"
\* a new call starts while another call has not resolved
overlaps == imageCache.overlapped \/ \E c \in CallIds : inFlight(imageCache.calls[c])

\* a callback of the network or of IndexedDB is a task of its own: it runs
\* when no continuation of a resolved initPromise is left to run
tasksMayRun == ~ imageCache.initDone \/ imageCache.waiters = << >>
\* the call is the next to go on after init()
goesOn(c) ==
  /\ imageCache.initDone
  /\ imageCache.waiters # << >>
  /\ Head(imageCache.waiters) = c

\* get(url) up to its first await: a hit in memoryCache returns the object
\* URL, a miss goes on to await init()
getStarts(call, memoryCache) ==
  IF memoryCache
  THEN [call EXCEPT !.pc = "done", !.result = "url"]
  ELSE [call EXCEPT !.pc = "getAwaitInit"]

\* what loadImage and get do with the value their get(url) resolves to:
\* get returns it; the first get of loadImage returns a url and turns to the
\* network on null; the get after set() is returned as it is
getResolves(call, found) ==
  IF found THEN [call EXCEPT !.pc = "done", !.result = "url"]
  ELSE IF call.op = "loadImage" /\ call.phase = "cached"
       THEN [call EXCEPT !.pc = "fetching"]
       ELSE [call EXCEPT !.pc = "done", !.result = "null"]

\* loadImage(url) is called: the HEAD request is sent
CallLoadImage(c) ==
  /\ imageCache.pc = "page"
  /\ imageCache.calls[c].op = "none"
  /\ \A b \in CallIds : b < c => imageCache.calls[b].op # "none"
  /\ imageCache' = [imageCache EXCEPT
       !.overlapped = overlaps,
       !.calls[c] = [NoCacheCall EXCEPT !.op = "loadImage", !.pc = "checking"]]
  /\ CacheUnchanged

\* get(url) is called
CallGet(c) ==
  /\ imageCache.pc = "page"
  /\ imageCache.calls[c].op = "none"
  /\ \A b \in CallIds : b < c => imageCache.calls[b].op # "none"
  /\ imageCache' = [imageCache EXCEPT
       !.overlapped = overlaps,
       !.waiters = IF imageCache.memoryCache THEN @ ELSE Append(@, c),
       !.calls[c] = getStarts([NoCacheCall EXCEPT !.op = "get", !.phase = "get",
                                                   !.sinceCleared = imageCache.cleared],
                              imageCache.memoryCache)]
  /\ CacheUnchanged

\* the file is deleted from or put on the server
ServerChanges ==
  /\ imageCache.pc = "page"
  /\ imageCache' = [imageCache EXCEPT !.server = ~ @]
  /\ CacheUnchanged

\* checkFileExists resolves: true only if the file exists (a network error
\* or the timeout gives false). On false loadImage calls remove, which
\* deletes the url from memoryCache and awaits init(); on true it calls get
CheckFileExists(c) ==
  /\ imageCache.pc = "page"
  /\ imageCache.calls[c].pc = "checking"
  /\ tasksMayRun
  /\ \E fileExists \in {imageCache.server, FALSE} :
       IF fileExists
       THEN imageCache' = [imageCache EXCEPT
              !.waiters = IF imageCache.memoryCache THEN @ ELSE Append(@, c),
              !.calls[c] = getStarts([@ EXCEPT !.phase = "cached"], imageCache.memoryCache)]
       ELSE imageCache' = [imageCache EXCEPT
              !.memoryCache = FALSE,
              !.waiters = Append(@, c),
              !.calls[c] = [@ EXCEPT !.pc = "removeAwaitInit"]]
  /\ CacheUnchanged

\* indexedDB.open succeeds or fails: initPromise resolves
InitResolves ==
  /\ imageCache.pc = "page"
  /\ ~ imageCache.initDone
  /\ imageCache.waiters # << >>
  /\ imageCache' = [imageCache EXCEPT !.initDone = TRUE]
  /\ CacheUnchanged

\* remove goes on after init(): with a database it requests the deletion of
\* the url; remove returns and loadImage resolves to null
RemoveAfterInit(c) ==
  /\ imageCache.pc = "page"
  /\ imageCache.calls[c].pc = "removeAwaitInit"
  /\ goesOn(c)
  /\ imageCache' = [imageCache EXCEPT
       !.waiters = Tail(@),
       !.transactions = IF imageCache.db THEN Append(@, [request |-> "delete", call |-> c])
                        ELSE @,
       !.cleared = TRUE,
       !.calls[c] = [@ EXCEPT !.pc = "done", !.result = "null"]]
  /\ CacheUnchanged

\* get goes on after init(): without a database it returns null, with one
\* it requests the blob of the url
GetAfterInit(c) ==
  /\ imageCache.pc = "page"
  /\ imageCache.calls[c].pc = "getAwaitInit"
  /\ goesOn(c)
  /\ imageCache' =
       IF imageCache.db
       THEN [imageCache EXCEPT
              !.waiters = Tail(@),
              !.transactions = Append(@, [request |-> "get", call |-> c]),
              !.calls[c] = [@ EXCEPT !.pc = "getRequest"]]
       ELSE [imageCache EXCEPT !.waiters = Tail(@), !.calls[c] = getResolves(@, FALSE)]
  /\ CacheUnchanged

\* the oldest request is served. On the success of a get the handler puts
\* an object URL of the blob, if there is one, into memoryCache
ServeRequest ==
  /\ imageCache.pc = "page"
  /\ imageCache.transactions # << >>
  /\ imageCache.waiters = << >>
  /\ LET head == Head(imageCache.transactions)
     IN  imageCache' =
           IF head.request = "delete"
           THEN [imageCache EXCEPT !.transactions = Tail(@), !.store = FALSE]
           ELSE IF head.request = "put"
           THEN [imageCache EXCEPT !.transactions = Tail(@), !.store = TRUE]
           ELSE [imageCache EXCEPT
                  !.transactions = Tail(@),
                  !.memoryCache = @ \/ imageCache.store,
                  !.calls[head.call] = getResolves(@, imageCache.store)]
  /\ CacheUnchanged

\* the GET request of loadImage ends: on an error or a status that is not
\* ok loadImage resolves to null; on a blob set() puts an object URL into
\* memoryCache and awaits init()
Fetch(c) ==
  /\ imageCache.pc = "page"
  /\ imageCache.calls[c].pc = "fetching"
  /\ tasksMayRun
  /\ \E ok \in {imageCache.server, FALSE} :
       IF ok
       THEN imageCache' = [imageCache EXCEPT
              !.memoryCache = TRUE,
              !.cleared = FALSE,
              !.waiters = Append(@, c),
              !.calls = [b \in CallIds |->
                          IF b = c THEN [@[b] EXCEPT !.pc = "setAwaitInit"]
                          ELSE [@[b] EXCEPT !.sinceCleared = FALSE]]]
       ELSE imageCache' = [imageCache EXCEPT
              !.calls[c] = [@ EXCEPT !.pc = "done", !.result = "null"]]
  /\ CacheUnchanged

\* set goes on after init(): with a database it requests the put of the
\* blob; loadImage returns what get(url) resolves to
SetAfterInit(c) ==
  /\ imageCache.pc = "page"
  /\ imageCache.calls[c].pc = "setAwaitInit"
  /\ goesOn(c)
  /\ imageCache' = [imageCache EXCEPT
       !.waiters = IF imageCache.memoryCache THEN Tail(@) ELSE Append(Tail(@), c),
       !.transactions = IF imageCache.db THEN Append(@, [request |-> "put", call |-> c])
                        ELSE @,
       !.calls[c] = getStarts([@ EXCEPT !.phase = "stored"], imageCache.memoryCache)]
  /\ CacheUnchanged

CacheNext ==
  \/ ServerChanges
  \/ InitResolves
  \/ ServeRequest
  \/ \E c \in CallIds :
       \/ CallLoadImage(c)
       \/ CallGet(c)
       \/ CheckFileExists(c)
       \/ RemoveAfterInit(c)
       \/ GetAfterInit(c)
       \/ Fetch(c)
       \/ SetAfterInit(c)

\* ------------------------------------------------------------------------
\* Specifications
\* ------------------------------------------------------------------------
vars == << passVars, matchCall, quad, shade, highRes, sideVars >>

\* one generation pass over every catalog, allow-list and hero
Init ==
  /\ PassInit
  /\ matchCall = NoCall
  /\ quad = NoQuad
  /\ shade = NoShade
  /\ highRes = NoExport
  /\ SideIdle

Spec == Init /\ [][Next]_vars

\* overlapping generation passes: the last tile check is outstanding, the
\* container is measured and the user navigates or resizes
RaceInit ==
  /\ strategy \in {"quadtree", "hexagon"}
  /\ photoColors = [i \in PoolIndices |-> Palette[(i % Len(Palette)) + 1]]
  /\ eventsLeft = MaxEvents
  /\ pendingChecks = {PoolSize - 1}
  /\ availableIndices = Ascending(PoolIndices \ {PoolSize - 1})
  /\ availableTileIndices = << >>
  /\ tilesLoaded = FALSE
  /\ currentMainIndex = 0
  /\ containerSize = 0
  /\ tiles = << >>
  /\ tilesPass = 0
  /\ mainImageUrl = NaN
  /\ mainImageSize = NoPlacement
  /\ edgeColors = NaN
  /\ maskData = NoMask
  /\ passes = << >>
  /\ matchCall = NoCall
  /\ quad = NoQuad
  /\ shade = NoShade
  /\ highRes = NoExport
  /\ SideIdle

SpecRace == RaceInit /\ [][Next]_vars

\* single calls of findBestMatch
SpecMatch == MatchInit /\ [][MatchNext]_vars

\* single calls of findBestMatch on catalogs longer than the top-20 cut
SpecLong == LongInit /\ [][MatchNext]_vars

\* single calls of buildQuadtree and collectLeaves
SpecQuad == QuadInit /\ [][QuadNext]_vars

\* the opacity of single regions
SpecShade == ShadeInit /\ [][ShadeNext]_vars

\* a displayed mosaic (Placed state) of hero PlacedHero, and one more event
PlacedHero == 0
PlacedTiles == << [imageIndex |-> 1, avgColor |-> Black], [imageIndex |-> 2, avgColor |-> Green] >>
PlacedSize == [hero |-> PlacedHero, size |-> 1]
PlacedMask == [hero |-> PlacedHero, size |-> 1]

PlacedInit ==
  /\ strategy \in {"quadtree", "hexagon"}
  /\ photoColors \in Pools
  /\ eventsLeft = 1
  /\ pendingChecks = {}
  /\ availableIndices = Ascending(PoolIndices)
  /\ availableTileIndices = Ascending(PoolIndices)
  /\ tilesLoaded = TRUE
  /\ currentMainIndex = PlacedHero
  /\ containerSize = 1
  /\ tiles = PlacedTiles
  /\ tilesPass = 0
  /\ mainImageUrl = PlacedHero
  /\ mainImageSize = PlacedSize
  /\ edgeColors = PlacedHero
  /\ maskData = PlacedMask
  /\ passes = << >>
  /\ matchCall = NoCall
  /\ quad = NoQuad
  /\ shade = NoShade
  /\ highRes = NoExport
  /\ SideIdle

\* the event and the pass it starts
PlacedNext ==
  \/ Resize
  \/ ChangeHero
  \/ \E p \in DOMAIN passes : HeroFailed(p)
  \/ \E p \in DOMAIN passes : HeroLoaded(p)
  \/ \E p \in DOMAIN passes : MaskLoaded(p)
  \/ \E p \in DOMAIN passes : ResolveRegion(p)
  \/ \E p \in DOMAIN passes : Commit(p)

\* one more pass over a displayed mosaic
SpecPlaced == PlacedInit /\ [][PlacedNext]_vars

\* two region loops, one after the other, on the same inputs
SpecTwin == TwinInit /\ [][TwinNext]_vars
SpecCapped == CappedInit /\ [][CappedNext]_vars
SpecBuilds == BuildsInit /\ [][BuildsNext]_vars
\* the loops of buildQuadtree are synchronous code that runs to its end
SpecBuildsRun == BuildsInit /\ [][BuildsNext]_vars /\ WF_vars(BuildsNext)
SpecCache == CacheInit /\ [][CacheNext]_vars
SpecFill == FillInit /\ [][FillNext]_vars
SpecOrder == OrderInit /\ [][OrderNext]_vars
SpecGrid == GridInit /\ [][GridNext]_vars
SpecProbe == ProbeInit /\ [][ProbeNext]_vars

\* exports of a displayed mosaic
SpecExport == ExportInit /\ [][ExportNext]_vars
\* every image load of an export ends and the code after an await runs
SpecExportRun == ExportInit /\ [][ExportNext]_vars /\ WF_vars(ExportStep)

\* ------------------------------------------------------------------------
\* Properties
\* ------------------------------------------------------------------------
\* number of regions of a Region list that show tile id
Count(regions, id) == Cardinality({ i \in DOMAIN regions : regions[i].imageIndex = id })

RECURSIVE SumOver(_, _)
SumOver(f, S) ==
  IF S = {} THEN 0
  ELSE LET x == CHOOSE y \in S : TRUE IN f[x] + SumOver(f, S \ {x})

\* allow-listed, non-excluded catalog indices of pass p
Eligible(p) == { i \in PoolIndices : i \in Range(passes[p].avail) /\ i # passes[p].hero }

\* those of them whose catalog colour is valid
EligibleValid(p) == { i \in Eligible(p) : ~ IsNaNColor(photoColors[i]) }

Distinct(regions) ==
  \A i, j \in DOMAIN regions : i # j => regions[i].imageIndex # regions[j].imageIndex

\* C1: in the hexagon build (usage cap MAX_TILE_USAGE) no tile id is assigned
\* to more than MAX_TILE_USAGE regions of a pass, as long as the pass has
\* resolved at most MAX_TILE_USAGE times as many regions as there are
\* allow-listed, non-excluded candidates
C1_UsageCap ==
  strategy = "hexagon" =>
    \A p \in DOMAIN passes :
      Len(passes[p].newTiles) <= MAX_TILE_USAGE * Cardinality(Eligible(p)) =>
        \A id \in PoolIndices : Count(passes[p].newTiles, id) <= MAX_TILE_USAGE

C1_Witness ==
  /\ strategy = "hexagon"
  /\ \E p \in DOMAIN passes :
       /\ passes[p].pc = "done"
       /\ tiles = passes[p].newTiles
       /\ Len(tiles) = MaxRegions
       /\ Len(tiles) <= MAX_TILE_USAGE * Cardinality(Eligible(p))
       /\ \E id \in PoolIndices : Count(tiles, id) = MAX_TILE_USAGE

\* C2: no region of the displayed Region list shows the hero photo of the
\* pass that emitted the list
C2_HeroNeverTile ==
  tilesPass # 0 =>
    \A i \in DOMAIN tiles : tiles[i].imageIndex # passes[tilesPass].hero

\* C3: every imageIndex of the displayed Region list is in the allow-list
\* (availableTileIndices) of the pass that emitted it (quadtree build)
C3_TilesAllowListed ==
  (strategy = "quadtree" /\ tilesPass # 0) =>
    \A i \in DOMAIN tiles : tiles[i].imageIndex \in Range(passes[tilesPass].avail)

\* C4: once every started pass has finished and the most recently started
\* pass has emitted its Region list, the displayed tiles are those of the
\* most recently started pass (a superseded pass never commits)
C4_LatestPassWins ==
  ( /\ Len(passes) > 0
    /\ \A p \in DOMAIN passes : passes[p].pc \in {"done", "aborted", "heroFailed"}
    /\ passes[Len(passes)].pc = "done" )
  => tilesPass = Len(passes)

\* C8: at every point of a pass the usage counts sum to the number of regions
\* resolved so far, and each count is the number of regions showing that tile
C8_LedgerCountsRegions ==
  \A p \in DOMAIN passes :
    /\ SumOver(passes[p].usageCount, PoolIndices) = Len(passes[p].newTiles)
    /\ \A id \in PoolIndices : passes[p].usageCount[id] = Count(passes[p].newTiles, id)

C8_Witness ==
  \E p \in DOMAIN passes :
    /\ passes[p].pc = "matching"
    /\ Len(passes[p].newTiles) >= 2
    /\ Len(passes[p].newTiles) < passes[p].total
    /\ \E id \in PoolIndices : passes[p].usageCount[id] >= 2

\* eligible indices of the call in matchCall: not excluded, allow-listed when
\* a list is given, used fewer than maxUsage times
EligibleForCall ==
  { i \in PoolIndices :
      /\ i \notin matchCall.excludedIndices
      /\ (matchCall.availableTileIndices # Null => i \in Range(matchCall.availableTileIndices))
      /\ matchCall.usageCount[i] < matchCall.maxUsage }

\* C9: when at least one index is eligible, the capped findBestMatch returns
\* an eligible index
C9_ReturnsEligible ==
  (strategy = "hexagon" /\ matchCall.pc = "returned" /\ EligibleForCall # {})
    => matchCall.bestIndex \in EligibleForCall

C9_Witness ==
  /\ strategy = "hexagon"
  /\ matchCall.pc = "returned"
  /\ matchCall.bestIndex \in EligibleForCall
  /\ matchCall.bestIndex # 0
  /\ \E i \in PoolIndices :
       /\ i \notin EligibleForCall
       /\ matchCall.usageCount[i] >= matchCall.maxUsage
       /\ colorDistance(matchCall.targetColor, photoColors[i])
            < colorDistance(matchCall.targetColor, photoColors[matchCall.bestIndex])

\* C10 as stated: a pass of the hexagon build that has resolved no more
\* regions than there are allow-listed, non-excluded candidates has assigned
\* pairwise distinct tile ids
C10_DistinctWhileUnused ==
  strategy = "hexagon" =>
    \A p \in DOMAIN passes :
      Len(passes[p].newTiles) <= Cardinality(Eligible(p)) => Distinct(passes[p].newTiles)

\* C10 amended: a pass of the hexagon build that has resolved no more regions
\* than there are allow-listed, non-excluded candidates with a valid catalog
\* colour has assigned pairwise distinct tile ids
C10_DistinctWhileValidUnused ==
  strategy = "hexagon" =>
    \A p \in DOMAIN passes :
      Len(passes[p].newTiles) <= Cardinality(EligibleValid(p)) => Distinct(passes[p].newTiles)

C10_Witness ==
  /\ strategy = "hexagon"
  /\ \E p \in DOMAIN passes :
       /\ passes[p].pc = "done"
       /\ Len(passes[p].newTiles) >= 2
       /\ Len(passes[p].newTiles) = Cardinality(EligibleValid(p))
       /\ \E i, j \in DOMAIN passes[p].newTiles :
            i # j /\ passes[p].newTiles[i].avgColor = passes[p].newTiles[j].avgColor
       /\ Distinct(passes[p].newTiles)

\* pixel (px, py) lies in the square [x, x + size) x [y, y + size) of leaf
covers(leaf, px, py) ==
  /\ leaf.x <= px /\ px < leaf.x + leaf.size
  /\ leaf.y <= py /\ py < leaf.y + leaf.size

\* C5: when buildQuadtree and collectLeaves have returned, every pixel of the
\* raster lies in exactly one leaf (leaves taken with their stored size)
C5_LeavesPartitionRaster ==
  quad.pc = "collected" =>
    \A px \in 0..(quad.imageData.width - 1), py \in 0..(quad.imageData.height - 1) :
      Cardinality({ leaf \in quad.leaves : covers(leaf, px, py) }) = 1

\* C6: every emitted region has MIN_OPACITY <= opacity <= MAX_OPACITY
C6_OpacityInRange ==
  shade.pc = "emitted" =>
    MIN_OPACITY <= shade.opacity /\ shade.opacity <= MAX_OPACITY

\* the mask sample point of the region in shade (relative to the hero)
maskPoint == << shade.centerX - shade.mainImg.x, shade.centerY - shade.mainImg.y >>

\* the region in shade is one whose opacity is taken from the mask
sampledOnMask ==
  /\ shade.maskData # NoMaskData
  /\ IF strategy = "hexagon"
     THEN isOnMainImage(shade.centerX, shade.centerY, shade.mainImg)
     ELSE isLeafTile(shade.centerX, shade.centerY, shade.mainImg)
  /\ 0 <= maskPoint[1] /\ maskPoint[1] < shade.maskData.width
  /\ 0 <= maskPoint[2] /\ maskPoint[2] < shade.maskData.height

\* no transparent mask pixel in the square the search scans around the region
noTransparentInRadius ==
  LET searchRadius == Min(3 * shade.averageTileSize * OPACITY_TRANSITION_TILES,
                          (3 * Max(shade.maskData.width, shade.maskData.height)) \div 10)
  IN  \A dx, dy \in (0 - searchRadius)..searchRadius :
        ~ isTransparentInMask(maskPoint[1] + dx, maskPoint[2] + dy, shade.maskData)

\* C7: a region whose centre samples a mask pixel of alpha 0 is emitted with
\* opacity MIN_OPACITY, and a region with no transparent mask pixel within
\* the search radius of its centre is emitted with opacity MAX_OPACITY
C7_MaskExactness ==
  (shade.pc = "emitted" /\ sampledOnMask) =>
    /\ alpha(shade.maskData, maskPoint[1], maskPoint[2]) = 0 => shade.opacity = MIN_OPACITY
    /\ noTransparentInRadius => shade.opacity = MAX_OPACITY

\* the indices findBestMatch pushes as candidates for the call in matchCall
CallCandidates ==
  { i \in DOMAIN photoColors :
      /\ i \notin matchCall.excludedIndices
      /\ (matchCall.availableTileIndices # Null => i \in Range(matchCall.availableTileIndices))
      /\ (strategy = "hexagon" => matchCall.usageCount[i] < matchCall.maxUsage) }

\* raw colour distance of catalog entry i to the target of the call
RawDistance(i) == colorDistance(matchCall.targetColor, photoColors[i])

\* candidates as close to the target as the returned one, and used less
LessUsedEquallyClose ==
  { i \in CallCandidates :
      /\ RawDistance(i) = RawDistance(matchCall.bestIndex)
      /\ matchCall.usageCount[i] < matchCall.usageCount[matchCall.bestIndex] }

\* C11 as stated: findBestMatch never returns a candidate when another
\* candidate has the same raw colour distance and a strictly smaller usage count
C11_NeverPrefersMoreUsed ==
  (matchCall.pc = "returned" /\ matchCall.bestIndex \in CallCandidates)
    => LessUsedEquallyClose = {}

\* C11 amended: findBestMatch never returns a candidate of finite raw colour
\* distance when another candidate has the same raw colour distance and a
\* strictly smaller usage count
C11_NeverPrefersMoreUsedFinite ==
  ( /\ matchCall.pc = "returned"
    /\ matchCall.bestIndex \in CallCandidates
    /\ RawDistance(matchCall.bestIndex) # Infinity )
    => LessUsedEquallyClose = {}

C11_Witness ==
  /\ matchCall.pc = "returned"
  /\ matchCall.bestIndex \in CallCandidates
  /\ RawDistance(matchCall.bestIndex) # Infinity
  /\ \E i \in CallCandidates :
       /\ i < matchCall.bestIndex
       /\ RawDistance(i) = RawDistance(matchCall.bestIndex)
       /\ matchCall.usageCount[i] > matchCall.usageCount[matchCall.bestIndex]
  /\ \E i \in CallCandidates : RawDistance(i) < RawDistance(matchCall.bestIndex)

\* the candidate records findBestMatch computes for the call in matchCall
\* when the ledger is usageCount
ScoresUnder(usageCount) ==
  IF strategy = "hexagon"
  THEN candidatesCapped(matchCall.targetColor, photoColors, usageCount,
                        matchCall.excludedIndices, DEFAULT_DIVERSITY_BONUS,
                        matchCall.availableTileIndices, matchCall.maxUsage)
  ELSE candidates(matchCall.targetColor, photoColors, usageCount,
                  matchCall.excludedIndices, DEFAULT_DIVERSITY_BONUS,
                  matchCall.availableTileIndices)

\* C12: with the target colour and every other ledger entry fixed, the
\* adjusted score (distance) of a candidate does not decrease when the usage
\* count of that candidate goes up by one
C12_ScoreMonotoneInUsage ==
  matchCall.pc \in {"args", "returned"} =>
    \A a \in ScoresUnder(matchCall.usageCount) :
      \A b \in ScoresUnder(increment(matchCall.usageCount, a.index)) :
        b.index = a.index => a.distance <= b.distance

C12_Witness ==
  /\ strategy = "hexagon"
  /\ matchCall.pc = "returned"
  /\ \E a \in ScoresUnder(matchCall.usageCount) :
       /\ a.index = matchCall.bestIndex
       /\ a.usage = 0
       /\ \E b \in ScoresUnder(increment(matchCall.usageCount, a.index)) :
            b.index = a.index /\ a.distance < b.distance /\ b.distance < Infinity

\* positions of the allow-list of the call in matchCall that hold an id
\* which is not excluded
OpenPositions ==
  IF matchCall.availableTileIndices = Null THEN {}
  ELSE { k \in DOMAIN matchCall.availableTileIndices :
           matchCall.availableTileIndices[k] \notin matchCall.excludedIndices }

\* C13: when findBestMatch has no candidate it returns the first id of the
\* allow-list (in its insertion order) that is not excluded, and id 0 when
\* there is no allow-list or every allow-listed id is excluded
C13_FallbackFirstAvailable ==
  (matchCall.pc = "returned" /\ CallCandidates = {}) =>
    IF OpenPositions # {}
    THEN \E k \in OpenPositions :
           /\ \A j \in OpenPositions : k <= j
           /\ matchCall.bestIndex = matchCall.availableTileIndices[k]
    ELSE matchCall.bestIndex = 0

C13_Witness ==
  /\ strategy = "hexagon"
  /\ matchCall.pc = "returned"
  /\ CallCandidates = {}
  /\ matchCall.availableTileIndices # Null
  /\ Len(matchCall.availableTileIndices) = PoolSize
  /\ matchCall.availableTileIndices[1] \in matchCall.excludedIndices
  /\ matchCall.bestIndex = matchCall.availableTileIndices[2]
  /\ matchCall.bestIndex > matchCall.availableTileIndices[PoolSize]

\* C14: the step in which findBestMatch runs changes neither the usage
\* ledger nor the excluded set, the allow-list or the catalog colours; the
\* caller's next step adds one to the ledger entry of the returned id and
\* changes nothing else
C14_MatcherFrame ==
  [][ /\ (matchCall.pc = "args" /\ matchCall'.pc = "returned") =>
           /\ matchCall'.usageCount = matchCall.usageCount
           /\ matchCall'.excludedIndices = matchCall.excludedIndices
           /\ matchCall'.availableTileIndices = matchCall.availableTileIndices
           /\ photoColors' = photoColors
      /\ (matchCall.pc = "returned" /\ matchCall'.pc = "counted") =>
           /\ matchCall'.usageCount[matchCall.bestIndex]
                = matchCall.usageCount[matchCall.bestIndex] + 1
           /\ \A i \in DOMAIN matchCall.usageCount :
                i # matchCall.bestIndex =>
                  matchCall'.usageCount[i] = matchCall.usageCount[i]
           /\ matchCall'.excludedIndices = matchCall.excludedIndices
           /\ matchCall'.availableTileIndices = matchCall.availableTileIndices
           /\ photoColors' = photoColors ]_vars

C14_Witness ==
  /\ strategy = "quadtree"
  /\ matchCall.pc = "counted"
  /\ matchCall.usageCount[matchCall.bestIndex] = MaxCount + 1
  /\ matchCall.availableTileIndices # Null
  /\ matchCall.excludedIndices # {}

\* ------------------------------------------------------------------------
\* Export properties
\* ------------------------------------------------------------------------
\* the canvas holds a draw of the region with its stored tile at its stored
\* box multiplied by the scale factor
DrawnAtStoredGeometry(region) ==
  \E i \in DOMAIN highRes.canvas :
    /\ highRes.canvas[i].kind = "tile"
    /\ highRes.canvas[i].region = region
    /\ highRes.canvas[i].imageIndex = tiles[region].imageIndex
    /\ highRes.canvas[i].x = tiles[region].x * scaleFactor
    /\ highRes.canvas[i].y = tiles[region].y * scaleFactor
    /\ highRes.canvas[i].width = tiles[region].width * scaleFactor
    /\ highRes.canvas[i].height = tiles[region].height * scaleFactor

\* a step of the export leaves the displayed mosaic, the matcher and the
\* partitioner alone
ExportStepKeepsMosaic ==
  (highRes' # highRes) =>
    /\ tiles' = tiles
    /\ mainImageUrl' = mainImageUrl
    /\ mainImageSize' = mainImageSize
    /\ edgeColors' = edgeColors
    /\ maskData' = maskData
    /\ passes' = passes
    /\ tilesPass' = tilesPass
    /\ matchCall' = matchCall
    /\ quad' = quad

\* C15, as stated: no step of the export changes the Region list, the hero
\* image or its placement or runs the matcher or a partitioner, and a
\* finished export has drawn every region of the Placed list with its stored
\* tile at its stored geometry times the scale factor
C15_ExportDrawsEveryRegion ==
  /\ [][ExportStepKeepsMosaic]_vars
  /\ [](highRes.pc = "exported" =>
          \A region \in DOMAIN tiles : DrawnAtStoredGeometry(region))

\* C15, amended: no step of the export, failed or not, changes the Region
\* list, the hero image or its placement or runs the matcher or a
\* partitioner; a finished export has drawn every region whose tile image
\* loaded, with its stored tile at its stored geometry times the scale
\* factor, and has drawn nothing for a region whose tile image failed to load
C15_ExportDrawsLoadedRegions ==
  /\ [][ExportStepKeepsMosaic]_vars
  /\ [](highRes.pc \in {"exported", "failed"} =>
          \A region \in DOMAIN tiles :
            /\ region \in highRes.loaded => DrawnAtStoredGeometry(region)
            /\ region \in highRes.skipped =>
                 \A i \in DOMAIN highRes.canvas : highRes.canvas[i].region # region)

\* C15 witness: an export has finished with one region drawn and another
\* skipped because its tile image did not load
C15_Witness ==
  /\ highRes.pc = "exported"
  /\ highRes.loaded # {}
  /\ highRes.skipped # {}
  /\ \E region \in highRes.loaded : DrawnAtStoredGeometry(region)

\* C16: every tile drawn by the export is composited with an alpha equal to
\* the stored opacity of its region
C16_AlphaIsStoredOpacity ==
  \A i \in DOMAIN highRes.canvas :
    highRes.canvas[i].kind = "tile" =>
      highRes.canvas[i].globalAlpha = tiles[highRes.canvas[i].region].opacity

\* C17: every hexagonal region drawn by the export is clipped to its own six
\* vertices multiplied by the scale factor
C17_HexagonClipped ==
  \A i \in DOMAIN highRes.canvas :
    (highRes.canvas[i].kind = "tile"
       /\ Len(tiles[highRes.canvas[i].region].vertices) = 6) =>
      highRes.canvas[i].clip =
        [v \in 1..6 |->
           [x |-> tiles[highRes.canvas[i].region].vertices[v].x * scaleFactor,
            y |-> tiles[highRes.canvas[i].region].vertices[v].y * scaleFactor]]

\* ------------------------------------------------------------------------
\* Aborted passes
\* ------------------------------------------------------------------------
\* the displayed mosaic is the one the pass found
PlacedKept ==
  /\ tiles = PlacedTiles
  /\ mainImageUrl = PlacedHero
  /\ mainImageSize = PlacedSize
  /\ edgeColors = PlacedHero
  /\ maskData = PlacedMask
  /\ tilesPass = 0

\* C18: a pass whose hero image failed to load has emitted no region, and
\* the displayed tiles, hero, hero placement, edge colours and mask are the
\* ones displayed before the pass
C18_HeroFailureKeepsDisplay ==
  \A p \in DOMAIN passes :
    passes[p].pc = "heroFailed" =>
      /\ passes[p].newTiles = << >>
      /\ PlacedKept

\* C18 witness: over a displayed mosaic a pass for another hero has been
\* started by navigation and has ended at the failed load of its hero image
C18_Witness ==
  \E p \in DOMAIN passes :
    /\ passes[p].pc = "heroFailed"
    /\ passes[p].hero # PlacedHero
    /\ Len(tiles) > 0

\* the partitioner of the pass has run and has found no region
zeroRegions(p) ==
  \/ passes[p].pc = "aborted"
  \/ passes[p].pc \in {"matching", "done"} /\ passes[p].total = 0

\* C19: a pass whose partitioner found no region (no quadtree leaf, no
\* hexagon centre) aborts, and the displayed tiles, hero, hero placement and
\* mask are the ones displayed before the pass
C19_ZeroRegionsKeepsDisplay ==
  \A p \in DOMAIN passes :
    zeroRegions(p) =>
      /\ passes[p].pc = "aborted"
      /\ tiles = PlacedTiles
      /\ mainImageUrl = PlacedHero
      /\ mainImageSize = PlacedSize
      /\ maskData = PlacedMask
      /\ tilesPass = 0

inBorderGradient ==
  /\ strategy = "hexagon"
  /\ isOnMainImage(shade.centerX, shade.centerY, shade.mainImg)
  /\ minDistToBorder(maskPoint[1], maskPoint[2], shade.mainImg) * SCALE
       < shade.averageTileSize * BORDER_GRADIENT_WIDTH_MULTIPLIER

OnScreen(region) ==
  \E i \in DOMAIN tilesToRender : tilesToRender[i].index = region

\* the finished export holds a draw of the region
InExport(region) ==
  \E i \in DOMAIN highRes.canvas :
    highRes.canvas[i].kind = "tile" /\ highRes.canvas[i].region = region

\* C21, as stated: a region whose imageIndex has no tile URL is neither on
\* screen nor in a finished export
C21_UnresolvedDropped ==
  \A region \in DOMAIN tiles :
    tiles[region].imageIndex \notin tileImageUrls =>
      /\ ~ OnScreen(region)
      /\ highRes.pc = "exported" => ~ InExport(region)

\* C21, amended: a region whose imageIndex has no tile URL is not on screen
\* and every cell on screen has the URL of its tile; the export draws a
\* region only if its own load of the tile image succeeded, which needs the
\* tile file except in the build that exports from /photos/, and draws
\* nothing for a region whose load failed
C21_UnresolvedDroppedPerLoad ==
  /\ \A region \in DOMAIN tiles :
       tiles[region].imageIndex \notin tileImageUrls => ~ OnScreen(region)
  /\ \A i \in DOMAIN tilesToRender :
       /\ tilesToRender[i].tileUrl \in tileImageUrls
       /\ tilesToRender[i].tileUrl = tiles[tilesToRender[i].index].imageIndex
  /\ \A region \in DOMAIN tiles :
       /\ InExport(region) =>
            /\ region \in highRes.loaded
            /\ strategy # "hexagonOverlay" => tiles[region].imageIndex \in tileFiles
       /\ region \in highRes.skipped => ~ InExport(region)

\* C21 witness: a finished export and a screen that both lack a region
\* whose tile did not load, while another region is on screen and exported
C21_Witness ==
  /\ highRes.pc = "exported"
  /\ \E region \in DOMAIN tiles :
       /\ tiles[region].imageIndex \notin tileImageUrls
       /\ region \in highRes.skipped
  /\ \E region \in DOMAIN tiles : OnScreen(region) /\ InExport(region)

\* ------------------------------------------------------------------------
\* Fan-in of the tile-existence checks
\* ------------------------------------------------------------------------
\* C22: whenever a pass has been started, every tile-existence check has
\* completed, tilesLoaded is set, and the allow-list the pass works with is
\* the one built from the results of all checks; so is every committed
\* Region list
C22_PassesAfterFanIn ==
  \A p \in DOMAIN passes :
    /\ pendingChecks = {}
    /\ tilesLoaded
    /\ passes[p].avail = availableIndices
    /\ passes[p].avail = availableTileIndices

\* C22 witness: a pass has committed its Region list, working with an
\* allow-list that lacks a photo whose tile check failed
C22_Witness ==
  \E p \in DOMAIN passes :
    /\ passes[p].pc = "done"
    /\ tilesPass = p
    /\ Len(tiles) > 0
    /\ Len(passes[p].avail) < PoolSize
    /\ Len(passes[p].avail) > 1

\* ------------------------------------------------------------------------
\* Isolation of overlapping passes
\* ------------------------------------------------------------------------
\* the step writes the ledger or the in-progress Region list of pass p
WritesPass(p) ==
  \/ passes'[p].usageCount # passes[p].usageCount
  \/ passes'[p].newTiles # passes[p].newTiles

\* C23: under every interleaving of overlapping passes, a step that writes
\* the ledger or the in-progress Region list of one pass leaves the ledger
\* and the list of every other pass as they were, and the ledger of each
\* pass counts exactly the regions of that pass's own list
C23_PassesShareNothing ==
  /\ [][\A p \in DOMAIN passes, q \in DOMAIN passes :
          (p # q /\ WritesPass(p)) => ~ WritesPass(q)]_vars
  /\ [](\A p \in DOMAIN passes : \A id \in PoolIndices :
          passes[p].usageCount[id] = Count(passes[p].newTiles, id))

\* C23 witness: a pass is in its region loop with regions resolved, after a
\* pass started later than it has already committed regions of its own
C23_Witness ==
  \E p \in DOMAIN passes, q \in DOMAIN passes :
    /\ p < q
    /\ passes[p].pc = "matching"
    /\ Len(passes[p].newTiles) > 0
    /\ passes[q].pc = "done"
    /\ Len(passes[q].newTiles) > 0

\* ------------------------------------------------------------------------
\* Determinism of the region loop
\* ------------------------------------------------------------------------
\* region k has been resolved by both loops
BothResolved(k) ==
  /\ k <= Len(twin.runs[1].newTiles)
  /\ k <= Len(twin.runs[2].newTiles)

\* the two loops drew the same colours for the regions before region k
SameDrawsBefore(k) ==
  \A j \in 1..(k - 1) :
    twin.runs[1].newTiles[j].avgColor = twin.runs[2].newTiles[j].avgColor

RECURSIVE nominalSize(_, _)
nominalSize(size, depth) == IF depth = 0 THEN size ELSE nominalSize(size \div 2, depth - 1)

\* the node whose subdivision created the node
parentOf(node) ==
  LET size == 2 * nominalSize(rootSize(quad.imageData.width, quad.imageData.height), node.depth)
  IN  QuadNode(node.x - (node.x % size), node.y - (node.y % size), size, node.depth - 1)

\* the nodes of the tree that are leaves or wait in the queue
treeNodes == quad.leaves \cup Range(quad.queue)

\* the leaves inside the raster (they carry a colour and their clipped size)
rasterLeaves == { leaf \in quad.leaves : leaf.avgColor # InvalidColor }

\* the node was created by a split that the max-size rule demands
splitByMaxSize(node) ==
  node.depth > 0 =>
    aboveMaxTileSize(actualSize(parentOf(node), quad.imageData.width, quad.imageData.height),
                     quad.imageData.width, quad.imageData.height)

C26_CappedNodesAreLeaves ==
  quad.pc = "cappedCollected" =>
    LET kept == placementLeaves(quad.leaves, quad.imageData.width, quad.imageData.height)
    IN  /\ \A node \in quad.leaves :
             (node.x < quad.imageData.width /\ node.y < quad.imageData.height)
               => node \in kept
        /\ \A px \in 0..(quad.imageData.width - 1), py \in 0..(quad.imageData.height - 1) :
             \E leaf \in kept : covers(leaf, px, py)

\* ------------------------------------------------------------------------
\* The hexagon grid
\* ------------------------------------------------------------------------
\* C27: the centres a pass uses number at most N, the number of available
\* tiles, and the top vertex (x, y - a) of every centre the grid emits lies
\* in the container: 0 <= y - a < height and 0 <= x < width
C27_CentresCappedAndInside ==
  /\ Len(hexGrid.centersToUse) <= hexGrid.totalTiles
  /\ \A k \in 1..Len(hexGrid.hexagonCenters) :
       LET center == hexGrid.hexagonCenters[k]
       IN  /\ 0 <= center.y - hexGrid.a
           /\ center.y - hexGrid.a < hexGrid.height * CENTI
           /\ 0 <= center.x
           /\ center.x < hexGrid.width * CENTI

\* C27 witness: the grid holds more centres than there are tiles, in more
\* than one row, and the pass uses the first N of them
C27_Witness ==
  /\ hexGrid.pc = "centers"
  /\ Len(hexGrid.hexagonCenters) > hexGrid.totalTiles
  /\ Len(hexGrid.centersToUse) = hexGrid.totalTiles
  /\ \E k \in 1..Len(hexGrid.hexagonCenters) :
       hexGrid.hexagonCenters[k].y > hexGrid.a

\* C28, as stated: the side passed to generateHexagonGrid lies between
\* minSide = 10 and maxSide = min(width, height) / 4
C28_SideBetweenMinAndMax ==
  hexGrid.pc \in {"side", "grid", "centers", "aborted"} =>
    /\ minSide * CENTI <= hexGrid.a
    /\ hexGrid.a <= maxSideOf(hexGrid.width, hexGrid.height)

\* C28, amended: the side is never below minSide = 10, and it is at most
\* maxSide = min(width, height) / 4 when maxSide is not below minSide; in a
\* container whose smaller side is below 4 * minSide the side is minSide
C28_SideAtLeastMinAndCut ==
  hexGrid.pc \in {"side", "grid", "centers", "aborted"} =>
    /\ minSide * CENTI <= hexGrid.a
    /\ hexGrid.a <= Max(minSide * CENTI, maxSideOf(hexGrid.width, hexGrid.height))
    /\ Min(hexGrid.width, hexGrid.height) < 4 * minSide => hexGrid.a = minSide * CENTI

\* C28 witness: a side was computed in a container whose smaller side is
\* below 4 * minSide
C28_Witness ==
  /\ hexGrid.pc = "side"
  /\ Min(hexGrid.width, hexGrid.height) < 4 * minSide
  /\ hexGrid.a = minSide * CENTI

\* ------------------------------------------------------------------------
\* The transparency test of the mask
\* ------------------------------------------------------------------------
\* the pixel (px, py) holds the point (x, y): px = floor x and py = floor y
holdsPoint(px, py, x, y) ==
  /\ px * SCALE <= x /\ x < (px + 1) * SCALE
  /\ py * SCALE <= y /\ y < (py + 1) * SCALE

\* C29: isTransparentInMask is true exactly when the pixel (floor x,
\* floor y) lies in the raster of the mask and its alpha is at most 128; it
\* is false outside the raster and when there is no mask
C29_TransparentIffAlphaAtMost128 ==
  maskProbe.pc = "returned" =>
    (maskProbe.result <=>
       /\ maskProbe.maskData # NoMaskData
       /\ \E px \in 0..(maskProbe.maskData.width - 1),
             py \in 0..(maskProbe.maskData.height - 1) :
            /\ holdsPoint(px, py, maskProbe.x, maskProbe.y)
            /\ alpha(maskProbe.maskData, px, py) <= 128)

\* C29 witness: a call at a point between pixel centres returned true on a
\* pixel of alpha exactly 128
C29_Witness ==
  /\ maskProbe.pc = "returned"
  /\ maskProbe.result
  /\ maskProbe.x % SCALE # 0
  /\ maskProbe.maskData.pattern = "faint"

\* ------------------------------------------------------------------------
\* The split rule of both buildQuadtree
\* ------------------------------------------------------------------------
\* the build with the caps is running or has ended
cappedBuild == quad.pc \in {"capped", "cappedCollected"}

\* the size exceeds the min leaf size of the build
exceedsMinLeaf(size) ==
  IF cappedBuild
  THEN 30 * size > defaultMinTileSize30(quad.imageData.width, quad.imageData.height)
  ELSE aboveMinTileSize(size, quad.imageData.width, quad.imageData.height)

\* the size exceeds the max leaf size of the build
exceedsMaxLeaf(size) ==
  IF cappedBuild
  THEN 30 * size > defaultMaxTileSize30(quad.imageData.width, quad.imageData.height)
  ELSE aboveMaxTileSize(size, quad.imageData.width, quad.imageData.height)

\* the edge-clipped size of the node at the head of the queue
headSize == actualSize(Head(quad.queue), quad.imageData.width, quad.imageData.height)

\* the colour variance of the node at the head of the queue exceeds
\* VARIANCE_THRESHOLD
headVaries ==
  exceeds(calculateVariance(quad.imageData, Head(quad.queue).x, Head(quad.queue).y,
                            headSize, quad.imageData.width),
          VARIANCE_THRESHOLD)

\* the step takes the head of the queue
takesHead == quad.pc \in {"building", "capped"} /\ quad.queue # << >> /\ quad'.pc = quad.pc

\* the step subdivides the head of the queue
splitsHead == takesHead /\ quad'.queue = Tail(quad.queue) \o subdivide(Head(quad.queue))

C31_BuildQuadtreeTerminates ==
  /\ <>(quad.pc \in {"collected", "cappedCollected"})
  /\ [](quad.pc = "collected" => quad.queue = << >>)
  /\ [](cappedBuild =>
          /\ quad.iterations <= MaxIterations
          /\ \A node \in quad.leaves \cup Range(quad.queue) : node.depth <= MaxDepth)

\* C31 witness: the build with caps has ended on the iteration cap, with
\* nodes left at the depth cap
C31_Witness ==
  /\ quad.pc = "cappedCollected"
  /\ quad.iterations = MaxIterations
  /\ \E node \in quad.leaves : node.depth = MaxDepth

\* ------------------------------------------------------------------------
\* The rows of the hexagon grid
\* ------------------------------------------------------------------------
\* the rows whose top vertex k * verticalSpacing lies above the lower edge
rowsInside ==
  { k \in 0..(hexGrid.height * CENTI) : k * verticalSpacing(hexGrid.a) < hexGrid.height * CENTI }

\* the first centre of row k fits into the width of the container
rowHasRoom(k) ==
  hexGrid.a + (IF k % 2 = 1 THEN horizontalSpacing(hexGrid.a) \div 2 ELSE 0)
    <= hexGrid.width * CENTI - hexGrid.a + CENTI \div 2

\* C32: generateHexagonGrid emits every row whose own top vertex lies
\* inside the container height: the row k at y = side + k * verticalSpacing
\* is emitted whenever its top vertex k * verticalSpacing is < height
C32_EveryRowInsideEmitted ==
  hexGrid.pc \in {"grid", "centers", "aborted"} =>
    \A k \in rowsInside :
      rowHasRoom(k) =>
        \E n \in 1..Len(hexGrid.hexagonCenters) :
          hexGrid.hexagonCenters[n].y = hexGrid.a + k * verticalSpacing(hexGrid.a)

\* ------------------------------------------------------------------------
\* Candidates at infinite distance
\* ------------------------------------------------------------------------
\* the candidates of the call whose colour and the target are both valid:
\* their colour distance is finite
FiniteCandidates ==
  { i \in CallCandidates :
      ~ IsNaNColor(photoColors[i]) /\ ~ IsNaNColor(matchCall.targetColor) }

\* C33: a candidate whose colour distance to the target is infinite (its
\* colour or the target is not a valid colour) is never returned by
\* findBestMatch while a candidate with a finite distance exists
C33_InfiniteNeverPreferred ==
  (matchCall.pc = "returned" /\ FiniteCandidates # {})
    => matchCall.bestIndex \in FiniteCandidates

\* C33 witness: the call had an unused candidate with an invalid colour
\* and returned a candidate with a finite distance that was used more often
C33_Witness ==
  /\ matchCall.pc = "returned"
  /\ matchCall.bestIndex \in FiniteCandidates
  /\ \E i \in CallCandidates \ FiniteCandidates :
       /\ matchCall.usageCount[i] = 0
       /\ matchCall.usageCount[matchCall.bestIndex] > 0

\* ------------------------------------------------------------------------
\* One pass behind everything displayed
\* ------------------------------------------------------------------------
\* the hero and the container size of the pass that committed the
\* displayed Region list (pass 0: the mosaic displayed at the start)
heroOfTiles == IF tilesPass = 0 THEN PlacedHero ELSE passes[tilesPass].hero
sizeOfTiles == IF tilesPass = 0 THEN PlacedSize.size ELSE passes[tilesPass].size

\* the guard of downloadHighRes lets an export start
exportCanStart == Len(tiles) > 0 /\ mainImageUrl # NaN /\ ~ highRes.isGeneratingHighRes

\* C34: in every state in which an export can start, the displayed hero
\* image, the hero placement, the mask data and the Region list were
\* committed by the same pass
C34_DisplayFromOnePass ==
  exportCanStart =>
    /\ mainImageUrl = heroOfTiles
    /\ mainImageSize = [hero |-> heroOfTiles, size |-> sizeOfTiles]
    /\ maskData \in {NoMask, [hero |-> heroOfTiles, size |-> sizeOfTiles]}

\* ------------------------------------------------------------------------
\* The order of the draws of an export
\* ------------------------------------------------------------------------
\* C35: the export composites the tiles in the order of the Region list,
\* whatever the order in which the tile images finish loading
C35_DrawsInRegionOrder ==
  \A i \in DOMAIN highRes.canvas, j \in DOMAIN highRes.canvas :
    (i < j /\ highRes.canvas[i].kind = "tile" /\ highRes.canvas[j].kind = "tile")
      => highRes.canvas[i].region < highRes.canvas[j].region

\* ------------------------------------------------------------------------
\* The busy flag of the export
\* ------------------------------------------------------------------------
\* C36: every export that has set isGeneratingHighRes eventually clears it,
\* on every path: success, failed hero load, failed tile load, exception
\* while a tile is drawn, failed serialization
C36_BusyFlagCleared ==
  highRes.isGeneratingHighRes ~> ~ highRes.isGeneratingHighRes

\* ------------------------------------------------------------------------
\* The order of the allow-list
\* ------------------------------------------------------------------------
\* C37: two passes whose allow-lists hold the same ids in different orders,
\* with the same target colours, exclusions and catalog, produce the same
\* Region list
C37_OrderOfChecksIrrelevant ==
  twin.pc = "orders" =>
    \A k \in DOMAIN twin.regions :
      (k <= Len(twin.runs[1].newTiles) /\ k <= Len(twin.runs[2].newTiles))
        => twin.runs[1].newTiles[k] = twin.runs[2].newTiles[k]

\* C37 witness: both loops have finished on allow-lists of more than one
\* id in different orders, with several tiles at the same distance to the
\* colour of a region
C37_Witness ==
  /\ twin.pc = "orders"
  /\ Len(twin.runs[2].newTiles) = Len(twin.regions)
  /\ twin.runs[1].avail # twin.runs[2].avail
  /\ twin.runs[1].newTiles = twin.runs[2].newTiles
  /\ \E i \in Range(twin.runs[1].avail), j \in Range(twin.runs[1].avail) :
       /\ i # j /\ i # twin.hero /\ j # twin.hero
       /\ photoColors[i] = photoColors[j]

\* ------------------------------------------------------------------------
\* The background fill
\* ------------------------------------------------------------------------
\* points of an area: a lattice of MaxFillProbes x MaxFillProbes points
areaPoints(area) ==
  { [x |-> area.x + (i * area.width) \div MaxFillProbes,
     y |-> area.y + (j * area.height) \div MaxFillProbes] :
    i \in 0..(MaxFillProbes - 1), j \in 0..(MaxFillProbes - 1) }

\* the cell holds the point (half-open on its right and lower edge)
cellHolds(cell, point) ==
  /\ cell.tx * cell.area.width <= cell.tilesX * (point.x - cell.area.x)
  /\ cell.tilesX * (point.x - cell.area.x) < (cell.tx + 1) * cell.area.width
  /\ cell.ty * cell.area.height <= cell.tilesY * (point.y - cell.area.y)
  /\ cell.tilesY * (point.y - cell.area.y) < (cell.ty + 1) * cell.area.height

\* the cell and the placement of the hero share a point
cellMeetsHero(cell, mainImg) ==
  /\ cell.area.x * cell.tilesX + cell.tx * cell.area.width < (mainImg.x + mainImg.width) * cell.tilesX
  /\ cell.area.x * cell.tilesX + (cell.tx + 1) * cell.area.width > mainImg.x * cell.tilesX
  /\ cell.area.y * cell.tilesY + cell.ty * cell.area.height < (mainImg.y + mainImg.height) * cell.tilesY
  /\ cell.area.y * cell.tilesY + (cell.ty + 1) * cell.area.height > mainImg.y * cell.tilesY

\* the fill has gone through every empty area
fillDone == quad.pc = "fill" /\ quad.filled = Len(quad.emptyAreas)

\* C38: after the background fill every point of an empty area lies in
\* exactly one background cell, and no background cell meets the placement
\* of the hero
C38_FillTilesEmptyAreas ==
  fillDone =>
    /\ \A k \in DOMAIN quad.emptyAreas : \A point \in areaPoints(quad.emptyAreas[k]) :
         Cardinality({ cell \in quad.backgroundTiles : cellHolds(cell, point) }) = 1
    /\ \A cell \in quad.backgroundTiles : ~ cellMeetsHero(cell, quad.mainImg)

\* ------------------------------------------------------------------------
\* The image cache
\* ------------------------------------------------------------------------
\* the store holds no blob of the url, or its deletion is requested
storeCleared ==
  imageCache.store =>
    \E k \in DOMAIN imageCache.transactions : imageCache.transactions[k].request = "delete"

\* C39: after a loadImage has resolved to null on a failed existence check,
\* and until a set() stores the url again, the url is in neither cache and
\* every get called in that time resolves to null, also when calls overlap
C39_ClearedStaysCleared ==
  imageCache.pc = "page" =>
    /\ imageCache.cleared => (~ imageCache.memoryCache /\ storeCleared)
    /\ \A c \in CallIds :
         (imageCache.calls[c].op = "get" /\ imageCache.calls[c].sinceCleared)
           => imageCache.calls[c].result # "url"

====
